---- MODULE Spec2Model ----
(***************************************************************************)
(* MetaSo-MD-Translator: the marker codec, the fallback resolver, the      *)
(* sliding-window rate limiter, the resumable batch loop of the background *)
(* translation handlers, the paragraph planner with its token estimate,    *)
(* and the progress manager.                                               *)
(*                                                                         *)
(* Texts are sequences of tokens.  A token is one character ("a", "b",     *)
(* " ", "\n", the ideograph "zh" of the block U+4E00..U+9FA5, the          *)
(* ideograph "zx" of CJK Extension A, the emoji "em" of two UTF-16 code    *)
(* units), a run of 4000 letters ("L") or one whole marker                 *)
(* [[__META_SO_PARA_k__]], written "Mk".                                   *)
(***************************************************************************)
EXTENDS Integers, Sequences, FiniteSets, TLC

(***************************************************************************)
(* Bounds of the model.                                                    *)
(***************************************************************************)
\* largest batch size drawn for the codec
MaxBatch == 4
\* largest number of tokens in a text returned by the provider
MaxReplyLen == 4
\* number of slots for message handlers running at the same time
NumTasks == 2
\* number of request, retry and delete messages that arrive
MaxRuns == 3
\* number of items (pages) of a document; each item fills one batch
NumItems == 2
\* the last instant of the clock
MaxTime == 2
\* number of messages that arrive under the clock
RateRuns == 2
\* largest number of paragraphs handed to batchParagraphs
MaxParagraphs == 4
\* largest number of sections (items) of a document that is flattened
MaxSections == 3
\* largest number of paragraphs of a section of such a document
MaxSectionLen == 3
\* largest batch size drawn for the fallback ladder
MaxLongBatch == 11
\* largest number of characters of a text whose tokens are estimated
MaxTextLen == 5
\* number of calls made to the progress manager
MaxProgressOps == 3
\* the last instant of the progress manager's clock, in steps of TickMs
MaxProgressTicks == 3
\* largest parallelCount handed to initParallelProgress
MaxParallel == 2
\* number of calls of ActiveTranslationsManager.register
MaxRegistered == 3
\* number of request, retry and delete messages that arrive when every
\* handler is sure to go on
LiveRuns == 2
\* number of records in an imported file
MaxImport == 2
\* number of request, retry and delete messages that arrive during an import
ImportRuns == 1

VARIABLES
    \* the codec on one batch
    srcBatch,       \* the source texts of the paragraphs of the batch
    batchText,      \* the text sent to the provider
    reply,          \* the text the provider returned
    replyKind,      \* "none", "echo" (the sent text, unmodified) or "free"
    extraction,     \* the MarkerExtractionResult of the reply
    resolved,       \* the FallbackResult of the reply
    batchStored     \* the texts set into translatedParagraphs for the batch

codecVars == <<srcBatch, batchText, reply, replyKind, extraction, resolved, batchStored>>

VARIABLES
    \* the background script
    translations,       \* the 'translations' object store: id -> entry or NoEntry
    contents,           \* the ids the 'contents' object store holds a document for
    configured,         \* whether the 'config' store holds a model with an API key
    activeTranslations, \* ActiveTranslationsManager: Map id -> AbortController
    rateLimiter,        \* the RateLimiter singleton: requests, maxRequests, windowMs
    now,                \* Date.now()
    task,               \* the message handlers in progress, one per slot
    runsLeft,           \* how many more request or retry messages will arrive
    \* history, read by the properties only
    hist,               \* per slot: what the run in the slot has done
    failedAt,           \* per id: the batch the last finished run failed on
    completedIds,       \* the ids translated to completion and not deleted since
    callStarts          \* the times at which provider calls were started

orchVars == <<translations, contents, configured, activeTranslations, rateLimiter, now,
              task, runsLeft, hist, failedAt, completedIds, callStarts>>

VARIABLES
    \* the planner on one document
    planItems,      \* the document: its sections (items), each a list of paragraphs
    planMaxTokens,  \* the maxTokens handed to batchParagraphs
    planStage,      \* "input", "flattened", "planned" or "assembled"
    planParagraphs, \* the ParagraphInfo records of the document
    planBatches,    \* the batches of the document
    planTranslated, \* the map of translated paragraphs that is assembled
    planAssembled,  \* the items assembleTranslatedContent returns
    planEstimate    \* the MarkdownExtractionResult of the document

planVars == <<planItems, planMaxTokens, planStage, planParagraphs, planBatches,
              planTranslated, planAssembled, planEstimate>>

VARIABLES
    \* the progress manager
    progressCache,  \* Map key -> RealtimeTokenProgress
    progressNow,    \* Date.now(), in milliseconds
    progressOps,    \* how many calls of the manager are still to come
    progressLast    \* history: the last call, its arguments, the cache before it

progressVars == <<progressCache, progressNow, progressOps, progressLast>>

VARIABLES
    \* the tasks that use the ActiveTranslationsManager
    registered,     \* the calls of register, in order: the id, whether the
                    \* controller it returned is aborted, whether the task runs
    managerLast     \* history: the last call, its argument, the Map before it

managerVars == <<registered, managerLast>>

VARIABLES
    \* the handlers of the other messages
    original,       \* handleOriginalRequest: where it is, its id, what it read and
                    \* what it answered
    importing       \* importHistory: where it is, its data, existingIds, the
                    \* counters and, as history, the ids it has stored

messageVars == <<original, importing>>

vars == <<codecVars, orchVars, planVars, progressVars, managerVars, messageVars>>

\* no ORIGINAL_REQUEST and no import is handled
MessageIdle ==
    /\ original = [pc |-> "idle"]
    /\ importing = [pc |-> "idle"]

\* no task has registered
ManagerIdle ==
    /\ registered = <<>>
    /\ managerLast = [op |-> "none"]

\* the progress manager is not used
ProgressIdle ==
    /\ progressCache = [key \in {} |-> 0]
    /\ progressNow = 0
    /\ progressOps = 0
    /\ progressLast = [op |-> "none"]

\* no document is being planned
PlanIdle ==
    /\ planItems = <<>>
    /\ planMaxTokens = 0
    /\ planStage = "idle"
    /\ planParagraphs = <<>>
    /\ planBatches = <<>>
    /\ planTranslated = <<>>
    /\ planAssembled = <<>>
    /\ planEstimate = <<>>

(***************************************************************************)
(* Texts.                                                                  *)
(***************************************************************************)
\* the marker tokens, by ordinal: MarkerTable[k+1] is [[__META_SO_PARA_k__]]
MarkerTable ==
    <<"M0", "M1", "M2", "M3", "M4", "M5", "M6", "M7", "M8", "M9", "M10", "M11", "M12">>

Marker(k) == MarkerTable[k + 1]

\* markerPattern = /\[\[__META_SO_PARA_(\d+)__\]\]/g
IsMarker(tok) == \E i \in 1..Len(MarkerTable) : MarkerTable[i] = tok

\* parseInt(match[1])
MarkerIndex(tok) == (CHOOSE i \in 1..Len(MarkerTable) : MarkerTable[i] = tok) - 1

\* the characters String.prototype.trim removes
IsSpace(tok) == tok \in {" ", "\n"}

\* String.prototype.length: a one-digit marker is 22 characters long, a
\* two-digit marker 23, "L" stands for a run of 4000 letters, the emoji "em"
\* is a surrogate pair, any other token is one UTF-16 code unit
TokLen(tok) ==
    IF IsMarker(tok) THEN (IF MarkerIndex(tok) < 10 THEN 22 ELSE 23)
    ELSE IF tok = "L" THEN 4000
    ELSE IF tok = "em" THEN 2 ELSE 1

RECURSIVE CharLen(_)
CharLen(s) == IF s = <<>> THEN 0 ELSE TokLen(Head(s)) + CharLen(Tail(s))

RECURSIVE TrimStart(_)
TrimStart(s) ==
    IF s # <<>> /\ IsSpace(Head(s)) THEN TrimStart(Tail(s)) ELSE s

RECURSIVE TrimEnd(_)
TrimEnd(s) ==
    IF s # <<>> /\ IsSpace(s[Len(s)]) THEN TrimEnd(SubSeq(s, 1, Len(s) - 1)) ELSE s

\* String.prototype.trim
Trim(s) == TrimEnd(TrimStart(s))

\* content.replace(/\[\[__META_SO_PARA_\d+__\]\]/g, '')
StripMarkers(s) == SelectSeq(s, LAMBDA tok : ~IsMarker(tok))

\* isEmptyParagraph
\* a test that takes only the empty string for an empty paragraph
isEmptyString(s) == s = <<>>

isEmptyParagraph(s) == Trim(s) = <<>>

RECURSIVE Join(_, _)
\* Array.prototype.join
Join(parts, sep) ==
    IF parts = <<>> THEN <<>>
    ELSE IF Len(parts) = 1 THEN parts[1]
    ELSE parts[1] \o sep \o Join(Tail(parts), sep)

RECURSIVE SplitLines(_, _)
\* String.prototype.split('\n'): cur is the line being read
SplitLines(s, cur) ==
    IF s = <<>> THEN <<cur>>
    ELSE IF Head(s) = "\n" THEN <<cur>> \o SplitLines(Tail(s), <<>>)
    ELSE SplitLines(Tail(s), Append(cur, Head(s)))

RECURSIVE TrimAll(_)
TrimAll(ls) == IF ls = <<>> THEN <<>> ELSE <<Trim(Head(ls))>> \o TrimAll(Tail(ls))

\* translatedContent.split('\n').map(s => s.trim()).filter(s => s)
NonEmptyLines(s) == SelectSeq(TrimAll(SplitLines(s, <<>>)), LAMBDA l : l # <<>>)

(***************************************************************************)
(* JavaScript arrays with holes: a function from the indices that hold a   *)
(* value (0-based) to the values.                                          *)
(***************************************************************************)
EmptyArr == [i \in {} |-> <<>>]

SetMax(S) == CHOOSE m \in S : \A x \in S : x <= m

\* Array.prototype.length
ArrLen(arr) == IF DOMAIN arr = {} THEN 0 ELSE SetMax(DOMAIN arr) + 1

\* arr[k] = v
ArrPut(arr, k, v) == [i \in (DOMAIN arr) \cup {k} |-> IF i = k THEN v ELSE arr[i]]

\* Map.set and Map.delete; a Map without entries
MapSet(map, key, value) ==
    [k \in DOMAIN map \cup {key} |-> IF k = key THEN value ELSE map[k]]

MapDelete(map, key) == [k \in DOMAIN map \ {key} |-> map[k]]

EmptyMap == [key \in {} |-> 0]

\* the value undefined, which no text equals
Undefined == <<"undefined">>

\* [...arr]: the holes of the array become entries holding undefined
Spread(arr) ==
    [i \in 0..(ArrLen(arr) - 1) |-> IF i \in DOMAIN arr THEN arr[i] ELSE Undefined]

\* a dense 0-based array from a sequence
ArrOf(seq) == [i \in 0..(Len(seq) - 1) |-> seq[i + 1]]

RECURSIVE Ascending(_)
\* the members of a finite set of numbers, smallest first
Ascending(S) ==
    IF S = {} THEN <<>>
    ELSE LET m == CHOOSE x \in S : \A y \in S : x <= y
         IN  <<m>> \o Ascending(S \ {m})

(***************************************************************************)
(* markdownProcessor.ts                                                    *)
(***************************************************************************)
CeilDiv(a, b) == (a + b - 1) \div b

\* (text.match(/[\u4e00-\u9fa5]/g) || []).length
ChineseChars(text) == Len(SelectSeq(text, LAMBDA tok : tok = "zh"))

\* an estimate that rounds the sum of the two costs once
estimateRoundedOnce(text) ==
    CeilDiv(2 * ChineseChars(text) + (CharLen(text) - ChineseChars(text)), 4)

estimateTokens(text) ==
    CeilDiv(ChineseChars(text), 2) + CeilDiv(CharLen(text) - ChineseChars(text), 4)

RECURSIVE FlattenItem(_, _, _)
\* item.markdown.forEach((paragraph, paragraphIndex) => paragraphs.push(...))
FlattenItem(markdown, itemIndex, paragraphIndex) ==
    IF paragraphIndex >= Len(markdown) THEN <<>>
    ELSE (IF isEmptyParagraph(markdown[paragraphIndex + 1]) THEN <<>>
          ELSE <<[text |-> markdown[paragraphIndex + 1],
                  itemIndex |-> itemIndex,
                  paragraphIndex |-> paragraphIndex,
                  estimatedTokens |-> estimateTokens(markdown[paragraphIndex + 1])]>>)
         \o FlattenItem(markdown, itemIndex, paragraphIndex + 1)

RECURSIVE FlattenFrom(_, _)
FlattenFrom(items, itemIndex) ==
    IF itemIndex >= Len(items) THEN <<>>
    ELSE FlattenItem(items[itemIndex + 1], itemIndex, 0) \o FlattenFrom(items, itemIndex + 1)

\* a flattening that leaves out the first item
flattenSkippingFirst(items) == FlattenFrom(items, 1)

\* an item is the list of its paragraph texts (item.markdown)
flattenMarkdownItems(items) == FlattenFrom(items, 0)

RECURSIVE AllMarkdown(_)
\* extractMarkdownText: the paragraphs of all items that are not empty
AllMarkdown(items) ==
    IF items = <<>> THEN <<>>
    ELSE SelectSeq(Head(items), LAMBDA para : ~isEmptyParagraph(para))
         \o AllMarkdown(Tail(items))

extractMarkdownText(items) ==
    LET text == Join(AllMarkdown(items), <<"\n">>)
    IN  [text |-> text, estimatedTokens |-> estimateTokens(text)]

MAX_CONTEXT_TOKENS == 2048

SAFE_TOKEN_MARGIN == 0

RECURSIVE BatchLoop(_, _, _, _, _)
\* the for loop of batchParagraphs
BatchLoop(paragraphs, safeMaxTokens, batches, currentBatch, currentBatchTokens) ==
    IF paragraphs = <<>>
    THEN IF Len(currentBatch) > 0 THEN Append(batches, currentBatch) ELSE batches
    ELSE LET paragraph == Head(paragraphs)
             estimatedTokens == paragraph.estimatedTokens
         IN  IF estimatedTokens > safeMaxTokens
             THEN BatchLoop(Tail(paragraphs), safeMaxTokens,
                      Append(IF Len(currentBatch) > 0 THEN Append(batches, currentBatch)
                             ELSE batches,
                             <<paragraph>>),
                      <<>>, IF Len(currentBatch) > 0 THEN 0 ELSE currentBatchTokens)
             ELSE IF currentBatchTokens + estimatedTokens > safeMaxTokens
                     /\ Len(currentBatch) > 0
                  THEN BatchLoop(Tail(paragraphs), safeMaxTokens,
                           Append(batches, currentBatch), <<paragraph>>, estimatedTokens)
                  ELSE BatchLoop(Tail(paragraphs), safeMaxTokens, batches,
                           Append(currentBatch, paragraph),
                           currentBatchTokens + estimatedTokens)

\* a planner that puts every paragraph into one batch
batchAllInOne(paragraphs, maxTokens) ==
    IF paragraphs = <<>> THEN <<>> ELSE <<paragraphs>>

\* a planner that drops the paragraphs that exceed the budget
batchDroppingOversized(paragraphs, maxTokens) ==
    BatchLoop(SelectSeq(paragraphs, LAMBDA para : para.estimatedTokens <= maxTokens),
              maxTokens - SAFE_TOKEN_MARGIN, <<>>, <<>>, 0)

batchParagraphs(paragraphs, maxTokens) ==
    BatchLoop(paragraphs, maxTokens - SAFE_TOKEN_MARGIN, <<>>, <<>>, 0)

\* `${itemIndex}-${paragraphIndex}`
KeyOf(para) == <<para.itemIndex, para.paragraphIndex>>

RECURSIVE AssembleItem(_, _, _, _)
\* item.markdown.forEach((_, paragraphIndex) => ...): a paragraph is pushed
\* when the map holds a text for its key and the text is not empty
AssembleItem(markdown, itemIndex, paragraphIndex, translatedParagraphs) ==
    IF paragraphIndex >= Len(markdown) THEN <<>>
    ELSE LET key == <<itemIndex, paragraphIndex>>
         IN  (IF key \in DOMAIN translatedParagraphs
                  /\ ~isEmptyParagraph(translatedParagraphs[key])
              THEN <<translatedParagraphs[key]>>
              ELSE <<>>)
             \o AssembleItem(markdown, itemIndex, paragraphIndex + 1, translatedParagraphs)

assembleTranslatedContent(originalItems, translatedParagraphs) ==
    [i \in 1..Len(originalItems) |->
        [markdown_lang |-> AssembleItem(originalItems[i], i - 1, 0, translatedParagraphs),
         markdown |-> originalItems[i],
         could_translate |-> TRUE]]

(***************************************************************************)
(* markerUtils.ts                                                          *)
(***************************************************************************)
RECURSIVE MarkedParts(_, _)
MarkedParts(batch, index) ==
    IF batch = <<>> THEN <<>>
    ELSE <<Trim(Head(batch)) \o <<"\n", "\n">> \o <<Marker(index)>>>>
         \o MarkedParts(Tail(batch), index + 1)

\* a codec that numbers the markers from 1
injectMarkersFromOne(batch) == Join(MarkedParts(batch, 1), <<"\n", "\n">>)

\* batch.map((para, index) => `${para.text.trim()}\n\n[[__META_SO_PARA_${index}__]]`).join('\n\n')
injectMarkers(batch) == Join(MarkedParts(batch, 0), <<"\n", "\n">>)

\* the cleaning of one slice: trim, strip stray markers, trim
CleanContent(s) == Trim(StripMarkers(Trim(s)))

RECURSIVE ExtractLoop(_, _, _, _)
\* the for loop over matches: i scans the text, prevEnd is the end of the
\* previous match, acc the arrays built so far
ExtractLoop(text, i, prevEnd, acc) ==
    IF i > Len(text) THEN acc
    ELSE IF ~IsMarker(text[i]) THEN ExtractLoop(text, i + 1, prevEnd, acc)
    ELSE LET markerIndex == MarkerIndex(text[i])
             content == CleanContent(SubSeq(text, prevEnd + 1, i - 1))
         IN  ExtractLoop(text, i + 1, i,
                 [paragraphs |-> ArrPut(acc.paragraphs, markerIndex, content),
                  duplicateMarkers |->
                      IF markerIndex \in acc.foundMarkers
                      THEN Append(acc.duplicateMarkers, markerIndex)
                      ELSE acc.duplicateMarkers,
                  foundMarkers |-> acc.foundMarkers \cup {markerIndex}])

\* the text after the last marker is taken as the next paragraph
AfterLastMarker(text, expectedCount, acc) ==
    LET ms == {i \in 1..Len(text) : IsMarker(text[i])}
    IN  IF ms = {} THEN acc
        ELSE LET last == SetMax(ms)
                 nextIndex == MarkerIndex(text[last]) + 1
                 content == CleanContent(SubSeq(text, last + 1, Len(text)))
             IN  IF nextIndex < expectedCount
                 THEN [acc EXCEPT !.paragraphs = ArrPut(@, nextIndex, content),
                                  !.foundMarkers = @ \cup {nextIndex}]
                 ELSE acc

extractTranslatedParagraphs(translatedContent, expectedCount) ==
    LET acc0 == [paragraphs |-> EmptyArr, duplicateMarkers |-> <<>>, foundMarkers |-> {}]
        acc1 == ExtractLoop(translatedContent, 1, 0, acc0)
        acc2 == AfterLastMarker(translatedContent, expectedCount, acc1)
    IN  [paragraphs |-> acc2.paragraphs,
         missingMarkers |->
             Ascending({i \in 0..(expectedCount - 1) : i \notin acc2.foundMarkers}),
         duplicateMarkers |-> acc2.duplicateMarkers,
         foundMarkers |-> acc2.foundMarkers]

(***************************************************************************)
(* alignmentFallback.ts                                                    *)
(***************************************************************************)
\* Math.min(a, b) / Math.max(a, b) > 0.5, on lengths
Min(a, b) == IF a <= b THEN a ELSE b

Max(a, b) == IF a >= b THEN a ELSE b

\* calculateSimilarity(text1, text2) as the fraction <<numerator, denominator>>
calculateSimilarity(text1, text2) ==
    IF text1 = <<>> \/ text2 = <<>> THEN <<0, 1>>
    ELSE <<Min(CharLen(text1), CharLen(text2)), Max(CharLen(text1), CharLen(text2))>>

\* a > b for fractions with positive denominators
FracGreater(a, b) == a[1] * b[2] > b[1] * a[2]

RECURSIVE BestLine(_, _, _, _)
\* translatedLines.forEach: the first line with the strictly highest score
BestLine(originalText, lines, bestMatch, bestScore) ==
    IF lines = <<>> THEN [bestMatch |-> bestMatch, bestScore |-> bestScore]
    ELSE LET score == calculateSimilarity(originalText, Head(lines))
         IN  IF FracGreater(score, bestScore)
             THEN BestLine(originalText, Tail(lines), Head(lines), score)
             ELSE BestLine(originalText, Tail(lines), bestMatch, bestScore)

RECURSIVE FillLoop(_, _, _)
\* fillMissingWithOriginal: missingMarkers.forEach
FillLoop(result, missingMarkers, originalBatch) ==
    IF missingMarkers = <<>> THEN result
    ELSE LET index == Head(missingMarkers)
         IN  FillLoop(
                 IF index < Len(originalBatch)
                 THEN ArrPut(result, index, originalBatch[index + 1])
                 ELSE result,
                 Tail(missingMarkers), originalBatch)

\* a filling that leaves the missing ordinals as they are
fillNothing(paragraphs, missingMarkers, originalBatch) == Spread(paragraphs)

fillMissingWithOriginal(paragraphs, missingMarkers, originalBatch) ==
    FillLoop(Spread(paragraphs), missingMarkers, originalBatch)

RECURSIVE HeuristicLoop(_, _, _, _)
HeuristicLoop(result, missingMarkers, originalBatch, translatedLines) ==
    IF missingMarkers = <<>> THEN result
    ELSE LET markerIndex == Head(missingMarkers)
             originalText == IF markerIndex < Len(originalBatch)
                             THEN originalBatch[markerIndex + 1] ELSE <<>>
             best == BestLine(originalText, translatedLines, <<>>, <<-1, 1>>)
         IN  HeuristicLoop(
                 IF originalText = <<>> THEN result
                 ELSE IF FracGreater(best.bestScore, <<1, 2>>)
                      THEN ArrPut(result, markerIndex, best.bestMatch)
                      ELSE ArrPut(result, markerIndex, originalText),
                 Tail(missingMarkers), originalBatch, translatedLines)

\* a matching that never takes a line of the returned text
heuristicAlwaysSource(paragraphs, missingMarkers, originalBatch, translatedContent) ==
    fillMissingWithOriginal(paragraphs, missingMarkers, originalBatch)

applyHeuristicMatching(paragraphs, missingMarkers, originalBatch, translatedContent) ==
    HeuristicLoop(Spread(paragraphs), missingMarkers, originalBatch,
                  NonEmptyLines(translatedContent))

\* a fallback that keeps the source text of every paragraph
fallbackToSource(originalBatch, translatedContent) == ArrOf(originalBatch)

\* originalBatch.map((para, index) => translatedLines[index] || para.text)
fallbackToLineBased(originalBatch, translatedContent) ==
    LET translatedLines == NonEmptyLines(translatedContent)
    IN  [index \in 0..(Len(originalBatch) - 1) |->
            IF index < Len(translatedLines) THEN translatedLines[index + 1]
            ELSE originalBatch[index + 1]]

\* a ladder without the Minor level
ladderWithoutMinor(missingCount, duplicateCount, totalCount) ==
    IF missingCount = 0 /\ duplicateCount = 0 THEN "PERFECT"
    ELSE IF totalCount > 0 /\ 10 * missingCount < 3 * totalCount THEN "MODERATE_ISSUES"
    ELSE IF totalCount > 0 /\ missingCount < totalCount THEN "SEVERE_ISSUES"
    ELSE "COMPLETE_FAILURE"

\* the level chosen by the ladder; the ratios are compared as integers
FallbackLevelOf(missingCount, duplicateCount, totalCount) ==
    IF missingCount = 0 /\ duplicateCount = 0 THEN "PERFECT"
    ELSE IF totalCount > 0 /\ 10 * missingCount < totalCount THEN "MINOR_ISSUES"
    ELSE IF totalCount > 0 /\ 10 * missingCount < 3 * totalCount THEN "MODERATE_ISSUES"
    ELSE IF totalCount > 0 /\ missingCount < totalCount THEN "SEVERE_ISSUES"
    ELSE "COMPLETE_FAILURE"

applyFallbackStrategy(extractionResult, originalBatch, translatedContent) ==
    LET paragraphs == extractionResult.paragraphs
        missingMarkers == extractionResult.missingMarkers
        totalCount == Len(originalBatch)
        missingCount == Len(missingMarkers)
        level == FallbackLevelOf(missingCount, Len(extractionResult.duplicateMarkers),
                                 totalCount)
    IN  [level |-> level,
         paragraphs |->
             CASE level = "PERFECT" -> paragraphs
               [] level = "MINOR_ISSUES" ->
                     fillMissingWithOriginal(paragraphs, missingMarkers, originalBatch)
               [] level = "MODERATE_ISSUES" ->
                     applyHeuristicMatching(paragraphs, missingMarkers, originalBatch,
                                            translatedContent)
               [] level = "SEVERE_ISSUES" ->
                     fallbackToLineBased(originalBatch, translatedContent)
               [] OTHER -> ArrOf(originalBatch),
         missingCount |-> missingCount,
         totalCount |-> totalCount]

\* translationHandlers.ts, lines 358 and 367: what is stored for a paragraph
\* whose translation is text
Stored(text) == Trim(text) \o <<"\n", "\n">>

(***************************************************************************)
(* The background script: the stores, the limiter and the handlers.        *)
(***************************************************************************)
Ids == {"d1", "d2", "d3"}

Tasks == 1..NumTasks

\* the stored document of every id, after cleanEmptyParagraphs. d1: NumItems
\* items of two paragraphs, of 1000 and 1001 estimated tokens, so that every
\* item fills a batch of its own; d2: NumItems items that hold no paragraph;
\* d3: no item
Doc(id) ==
    CASE id = "d1" -> [i \in 1..NumItems |-> <<<<"L">>, <<"L", "a">>>>]
      [] id = "d2" -> [i \in 1..NumItems |-> <<>>]
      [] OTHER -> <<>>

BatchKeys(b) == {KeyOf(b[i]) : i \in 1..Len(b)}

\* performTranslation, lines 295-296
\* the batches of every document, computed once
BatchPlan ==
    [id \in Ids |-> batchParagraphs(flattenMarkdownItems(Doc(id)), MAX_CONTEXT_TOKENS)]

PlannedBatches(id) == BatchPlan[id]

NoEntry == [status |-> "absent"]

NoProgress == [completedBatchCount |-> -1]

\* the entry createPendingTranslation and updatePendingTranslation store
PendingEntry(tokenCount) ==
    [status |-> "pending", batchProgress |-> NoProgress, tokenCount |-> tokenCount,
     markdown |-> {}]

\* createPendingTranslation: indexedDB.setTranslation of a fresh pending entry
createPendingTranslation(store, id) == [store EXCEPT ![id] = PendingEntry(0)]

\* updatePendingTranslation: indexedDB.setTranslation of a fresh pending entry
updatePendingTranslation(store, id, tokenCount) ==
    [store EXCEPT ![id] = PendingEntry(tokenCount)]

\* a saveFailedTranslation that stores nothing
saveNothing(store, id) == store

\* saveFailedTranslation: indexedDB.setTranslation of a fresh failed entry
saveFailedTranslation(store, id) ==
    [store EXCEPT ![id] = [status |-> "failed", batchProgress |-> NoProgress,
                           tokenCount |-> 0, markdown |-> {}]]

\* saveBatchProgress(id, config, progress): the entry of id is stored as
\* pending with meta.batchProgress = progress
saveBatchProgress(store, id, progress) ==
    [store EXCEPT ![id] = [status |-> "pending", batchProgress |-> progress,
                           tokenCount |-> progress.totalTokens, markdown |-> {}]]

\* performTranslation, lines 393-415: the completed entry
CompletedEntry(translatedParagraphs, totalTokens) ==
    [status |-> "completed", batchProgress |-> NoProgress, tokenCount |-> totalTokens,
     markdown |-> translatedParagraphs]

\* batchProgress?.completedBatchCount || 0
\* a reading of the record that always starts from the first batch
startFromFirstBatch(entry) == 0

\* batchProgress?.completedBatchCount || 0
CompletedBatchCount(entry) ==
    IF entry.status = "absent" \/ entry.batchProgress = NoProgress THEN 0
    ELSE entry.batchProgress.completedBatchCount

\* the keys of batchProgress.translatedParagraphs
ProgressKeys(entry) ==
    IF entry.status = "absent" \/ entry.batchProgress = NoProgress THEN {}
    ELSE entry.batchProgress.translatedParagraphs

\* RateLimiter: this.requests.filter(time => now - time < this.windowMs)
Pruned(requests, windowMs, t) == SelectSeq(requests, LAMBDA time : t - time < windowMs)

\* getWaitTime, on the pruned list
getWaitTime(limiter, t) ==
    LET requests == Pruned(limiter.requests, limiter.windowMs, t)
    IN  IF Len(requests) < limiter.maxRequests THEN 0
        ELSE requests[1] + limiter.windowMs - t

\* recordRequest
recordRequest(limiter, t) == [limiter EXCEPT !.requests = Append(@, t)]

\* CONFIG.TRANSLATION and CONFIG.RATE_LIMIT
MAX_REQUESTS == 60

WINDOW_MS == 60000

IdleTask ==
    [pc |-> "idle", kind |-> "none", id |-> "none", batchIndex |-> 0,
     translatedParagraphs |-> {}, totalTokens |-> 0, wakeAt |-> 0,
     result |-> [success |-> FALSE, data |-> NoEntry]]

IdleHist ==
    [calls |-> <<>>, saved |-> {}, wrote |-> FALSE, solo |-> TRUE, resume |-> 0,
     mustResume |-> -1, failedBatch |-> -1, failedKeys |-> {},
     cancelled |-> FALSE, afterCancel |-> {}, late |-> FALSE,
     loadedTokens |-> 0, consumed |-> 0, events |-> <<>>]

\* notifyTranslationReady: the message sent to the tab, when the handler was
\* given a tab and the tab still exists
notifyTranslationReady(tabOpen) == IF tabOpen THEN <<"TRANSLATION_READY">> ELSE <<>>

\* the store is empty, the limiter is new, no handler runs
InitOrch(maxRequests, windowMs, runs) ==
    /\ translations = [id \in Ids |-> NoEntry]
    /\ contents = {}
    /\ configured = FALSE
    /\ activeTranslations = EmptyMap
    /\ rateLimiter = [requests |-> <<>>, maxRequests |-> maxRequests, windowMs |-> windowMs]
    /\ now = 0
    /\ task = [t \in Tasks |-> IdleTask]
    /\ runsLeft = runs
    /\ hist = [t \in Tasks |-> IdleHist]
    /\ failedAt = [id \in Ids |-> -1]
    /\ completedIds = {}
    /\ callStarts = <<>>

\* translationResult.meta?.tokenCount || currentBatchTokens
TokenCounts == {7}

Running(u) == task[u].pc \notin {"idle", "done"}

\* a message is handled in the lowest free slot
Arrives(t) ==
    /\ runsLeft > 0
    /\ task[t].pc = "idle"
    /\ \A u \in Tasks : u < t => task[u].pc # "idle"
    /\ runsLeft' = runsLeft - 1

\* the handler returns an error before it has read the translation
Refuse(t, id, kind) ==
    /\ task' = [task EXCEPT ![t] = [IdleTask EXCEPT !.pc = "done", !.kind = kind, !.id = id]]
    /\ hist' = [hist EXCEPT ![t] = IdleHist]
    /\ UNCHANGED <<failedAt, completedIds>>

\* the handler goes on to read the translation of id
Enter(t, id, kind) ==
    /\ task' = [task EXCEPT ![t] =
                   [IdleTask EXCEPT !.pc = "getTranslation", !.kind = kind, !.id = id]]
    /\ hist' = [u \in Tasks |->
                   IF u = t
                   THEN [IdleHist EXCEPT
                            !.solo = \A v \in Tasks \ {t} : ~(Running(v) /\ task[v].id = id),
                            !.mustResume = IF kind = "retry" THEN failedAt[id] ELSE -1,
                            !.late = id \in completedIds]
                   ELSE IF task[u].id = id THEN [hist[u] EXCEPT !.solo = FALSE]
                   ELSE hist[u]]
    /\ failedAt' = [failedAt EXCEPT ![id] = -1]
    /\ UNCHANGED completedIds

\* handleRequestTranslation, lines 157-166
StartRequest(t, id) ==
    /\ Arrives(t)
    /\ IF configured THEN Enter(t, id, "request") ELSE Refuse(t, id, "request")
    /\ UNCHANGED <<translations, contents, configured, activeTranslations, rateLimiter,
                   now, callStarts>>
    /\ UNCHANGED <<codecVars, planVars, progressVars, managerVars, messageVars>>

\* handleRetryTranslation, lines 205-218
StartRetry(t, id) ==
    /\ Arrives(t)
    /\ IF id \in contents /\ configured THEN Enter(t, id, "retry")
       ELSE Refuse(t, id, "retry")
    /\ UNCHANGED <<translations, contents, configured, activeTranslations, rateLimiter,
                   now, callStarts>>
    /\ UNCHANGED <<codecVars, planVars, progressVars, managerVars, messageVars>>

\* lines 168-174 and 221-226: a completed translation is announced to the tab
\* and returned as it is
GetTranslation(t) ==
    /\ task[t].pc = "getTranslation"
    /\ LET existingTranslation == translations[task[t].id]
       IN  IF existingTranslation.status = "completed"
           THEN /\ task' = [task EXCEPT ![t] =
                       [@ EXCEPT !.pc = "done",
                                 !.result = [success |-> TRUE, data |-> existingTranslation]]]
                /\ \E tabOpen \in BOOLEAN :
                       hist' = [hist EXCEPT ![t].events = @ \o notifyTranslationReady(tabOpen)]
           ELSE /\ task' = [task EXCEPT ![t].pc = "createPending"]
                /\ UNCHANGED hist
    /\ UNCHANGED <<translations, contents, configured, activeTranslations, rateLimiter,
                   now, runsLeft, failedAt, completedIds, callStarts>>
    /\ UNCHANGED <<codecVars, planVars, progressVars, managerVars, messageVars>>

\* what a write of the run in slot t adds to its history
Wrote(h) ==
    [h EXCEPT !.wrote = TRUE,
              !.afterCancel = IF h.cancelled THEN @ \cup {"write"} ELSE @]

\* lines 180 and 234
CreatePending(t) ==
    /\ task[t].pc = "createPending"
    /\ translations' = createPendingTranslation(translations, task[t].id)
    /\ task' = [task EXCEPT ![t].pc = "loadProgress"]
    /\ hist' = [hist EXCEPT ![t] = Wrote(@)]
    /\ UNCHANGED <<contents, configured, activeTranslations, rateLimiter, now, runsLeft,
                   failedAt, completedIds, callStarts>>
    /\ UNCHANGED <<codecVars, planVars, progressVars, managerVars, messageVars>>

\* batchProgress?.totalTokens || 0
ProgressTokens(entry) ==
    IF entry.status = "absent" \/ entry.batchProgress = NoProgress THEN 0
    ELSE entry.batchProgress.totalTokens

\* performTranslation, lines 259-312: the plan and the point of resumption
LoadProgress(t) ==
    /\ task[t].pc = "loadProgress"
    /\ LET id == task[t].id
           existingTranslation == translations[id]
           resumeFromBatch == CompletedBatchCount(existingTranslation)
       IN  /\ task' = [task EXCEPT ![t] =
                  IF Len(Doc(id)) = 0 THEN [@ EXCEPT !.pc = "saveFailed"]
                  ELSE [@ EXCEPT
                           !.batchIndex = resumeFromBatch,
                           !.translatedParagraphs = ProgressKeys(existingTranslation),
                           !.totalTokens = ProgressTokens(existingTranslation),
                           !.pc = IF resumeFromBatch < Len(PlannedBatches(id))
                                  THEN "waitIfNeeded" ELSE "setCompleted"]]
           /\ hist' = [hist EXCEPT ![t].resume = resumeFromBatch,
                                   ![t].loadedTokens = ProgressTokens(existingTranslation)]
    /\ UNCHANGED <<translations, contents, configured, activeTranslations, rateLimiter,
                   now, runsLeft, failedAt, completedIds, callStarts>>
    /\ UNCHANGED <<codecVars, planVars, progressVars, managerVars, messageVars>>

\* line 327: translationService.translate is called for the batch
CallProvider(t) ==
    /\ task' = [task EXCEPT ![t].pc = "translating"]
    /\ callStarts' = Append(callStarts, now)
    /\ hist' = [hist EXCEPT ![t] =
                   [@ EXCEPT !.calls = Append(@, task[t].batchIndex),
                             !.afterCancel = IF hist[t].cancelled THEN @ \cup {"call"}
                                             ELSE @]]

\* line 323: rateLimiter.waitIfNeeded()
WaitIfNeeded(t) ==
    /\ task[t].pc = "waitIfNeeded"
    /\ rateLimiter' = [rateLimiter EXCEPT
                          !.requests = Pruned(@, rateLimiter.windowMs, now)]
    /\ LET waitTime == getWaitTime(rateLimiter, now)
       IN  IF waitTime > 0
           THEN /\ task' = [task EXCEPT ![t].pc = "sleeping", ![t].wakeAt = now + waitTime]
                /\ UNCHANGED <<hist, callStarts>>
           ELSE CallProvider(t)
    /\ UNCHANGED <<translations, contents, configured, activeTranslations, now, runsLeft,
                   failedAt, completedIds>>
    /\ UNCHANGED <<codecVars, planVars, progressVars, managerVars, messageVars>>

\* the setTimeout of waitIfNeeded fires
WakeUp(t) ==
    /\ task[t].pc = "sleeping"
    /\ now >= task[t].wakeAt
    /\ CallProvider(t)
    /\ UNCHANGED <<translations, contents, configured, activeTranslations, rateLimiter,
                   now, runsLeft, failedAt, completedIds>>
    /\ UNCHANGED <<codecVars, planVars, progressVars, managerVars, messageVars>>

\* lines 327-372: the provider call returns; a failure or an empty content
\* leaves the batch untranslated
TranslateReturns(t) ==
    /\ task[t].pc = "translating"
    /\ rateLimiter' = recordRequest(rateLimiter, now)
    /\ \E success \in BOOLEAN, tokenCount \in TokenCounts :
          IF success
          THEN /\ task' = [task EXCEPT ![t] =
                      [@ EXCEPT
                          !.translatedParagraphs =
                              @ \cup BatchKeys(PlannedBatches(task[t].id)[task[t].batchIndex + 1]),
                          !.totalTokens = @ + tokenCount,
                          !.pc = "saveBatchProgress"]]
               /\ hist' = [hist EXCEPT ![t].consumed = @ + tokenCount]
          ELSE /\ task' = [task EXCEPT ![t].pc = "saveProgressAndThrow"]
               /\ hist' = [hist EXCEPT ![t].failedBatch = task[t].batchIndex,
                                       ![t].failedKeys = task[t].translatedParagraphs,
                                       ![t].consumed = @ + tokenCount]
    /\ UNCHANGED <<translations, contents, configured, activeTranslations, now, runsLeft,
                   failedAt, completedIds, callStarts>>
    /\ UNCHANGED <<codecVars, planVars, progressVars, managerVars, messageVars>>

\* a TranslationBatchProgress that counts one batch more than were completed
progressCountingAhead(t, completedBatchCount) ==
    [completedBatchCount |-> completedBatchCount + 1,
     totalBatchCount |-> Len(PlannedBatches(task[t].id)),
     translatedParagraphs |-> task[t].translatedParagraphs,
     totalTokens |-> task[t].totalTokens]

\* the TranslationBatchProgress built at lines 55-60 and 375-380
Progress(t, completedBatchCount) ==
    [completedBatchCount |-> completedBatchCount,
     totalBatchCount |-> Len(PlannedBatches(task[t].id)),
     translatedParagraphs |-> task[t].translatedParagraphs,
     totalTokens |-> task[t].totalTokens]

\* line 381
SaveBatchProgress(t) ==
    /\ task[t].pc = "saveBatchProgress"
    /\ translations' = saveBatchProgress(translations, task[t].id,
                                         Progress(t, task[t].batchIndex + 1))
    /\ task' = [task EXCEPT ![t].pc = "updatePending"]
    /\ hist' = [hist EXCEPT ![t] = [Wrote(@) EXCEPT !.saved = @ \cup {task[t].batchIndex}]]
    /\ UNCHANGED <<contents, configured, activeTranslations, rateLimiter, now, runsLeft,
                   failedAt, completedIds, callStarts>>
    /\ UNCHANGED <<codecVars, planVars, progressVars, managerVars, messageVars>>

\* line 382, and the step of the for loop
UpdatePending(t) ==
    /\ task[t].pc = "updatePending"
    /\ translations' = updatePendingTranslation(translations, task[t].id, task[t].totalTokens)
    /\ task' = [task EXCEPT ![t] =
                   [@ EXCEPT !.batchIndex = @ + 1,
                             !.pc = IF task[t].batchIndex + 1 < Len(PlannedBatches(task[t].id))
                                    THEN "waitIfNeeded" ELSE "setCompleted"]]
    /\ hist' = [hist EXCEPT ![t] = Wrote(@)]
    /\ UNCHANGED <<contents, configured, activeTranslations, rateLimiter, now, runsLeft,
                   failedAt, completedIds, callStarts>>
    /\ UNCHANGED <<codecVars, planVars, progressVars, managerVars, messageVars>>

\* lines 388-418: the completed entry is stored, announced to the tab and
\* returned
SetCompleted(t) ==
    /\ task[t].pc = "setCompleted"
    /\ LET translationEntry ==
               CompletedEntry(task[t].translatedParagraphs, task[t].totalTokens)
       IN  /\ translations' = [translations EXCEPT ![task[t].id] = translationEntry]
           /\ task' = [task EXCEPT ![t].pc = "done",
                                   ![t].result = [success |-> TRUE, data |-> translationEntry]]
    /\ \E tabOpen \in BOOLEAN :
           hist' = [hist EXCEPT ![t] =
                       [Wrote(@) EXCEPT !.events = @ \o notifyTranslationReady(tabOpen)]]
    /\ failedAt' = [failedAt EXCEPT ![task[t].id] = -1]
    /\ completedIds' = completedIds \cup {task[t].id}
    /\ UNCHANGED <<contents, configured, activeTranslations, rateLimiter, now, runsLeft,
                   callStarts>>
    /\ UNCHANGED <<codecVars, planVars, progressVars, managerVars, messageVars>>

\* saveProgressAndThrow, lines 55-62
SaveProgressAndThrow(t) ==
    /\ task[t].pc = "saveProgressAndThrow"
    /\ translations' = saveBatchProgress(translations, task[t].id,
                                         Progress(t, task[t].batchIndex))
    /\ task' = [task EXCEPT ![t].pc = "saveFailed"]
    /\ hist' = [hist EXCEPT ![t] = Wrote(@)]
    /\ UNCHANGED <<contents, configured, activeTranslations, rateLimiter, now, runsLeft,
                   failedAt, completedIds, callStarts>>
    /\ UNCHANGED <<codecVars, planVars, progressVars, managerVars, messageVars>>

\* the catch blocks, lines 189-192 and 243-247
SaveFailed(t) ==
    /\ task[t].pc = "saveFailed"
    /\ translations' = saveFailedTranslation(translations, task[t].id)
    /\ task' = [task EXCEPT ![t].pc = "done"]
    /\ hist' = [hist EXCEPT ![t] = Wrote(@)]
    /\ failedAt' = [failedAt EXCEPT ![task[t].id] =
                       IF hist[t].solo /\ ~hist[t].cancelled THEN hist[t].failedBatch
                       ELSE -1]
    /\ UNCHANGED completedIds
    /\ UNCHANGED <<contents, configured, activeTranslations, rateLimiter, now, runsLeft,
                   callStarts>>
    /\ UNCHANGED <<codecVars, planVars, progressVars, managerVars, messageVars>>

\* the response has been sent: the slot is free again
Reply(t) ==
    /\ task[t].pc = "done"
    /\ task' = [task EXCEPT ![t] = IdleTask]
    /\ hist' = [hist EXCEPT ![t] = IdleHist]
    /\ UNCHANGED <<translations, contents, configured, activeTranslations, rateLimiter,
                   now, runsLeft, failedAt, completedIds, callStarts>>
    /\ UNCHANGED <<codecVars, planVars, progressVars, managerVars, messageVars>>

\* ActiveTranslationsManager.cancel, line 30: what is left in the Map
cancel(controllers, translationId) == MapDelete(controllers, translationId)

\* historyHandlers.ts, deleteTranslation
DeleteTranslation(id) ==
    /\ runsLeft > 0
    /\ runsLeft' = runsLeft - 1
    /\ activeTranslations' = cancel(activeTranslations, id)
    /\ translations' = [translations EXCEPT ![id] = NoEntry]
    /\ hist' = [u \in Tasks |->
                   IF task[u].id = id
                   THEN [hist[u] EXCEPT !.solo = FALSE, !.late = FALSE,
                                        !.cancelled = @ \/ Running(u)]
                   ELSE hist[u]]
    /\ failedAt' = [failedAt EXCEPT ![id] = -1]
    /\ completedIds' = completedIds \ {id}
    /\ UNCHANGED <<contents, configured, rateLimiter, now, task, callStarts>>
    /\ UNCHANGED <<codecVars, planVars, progressVars, managerVars, messageVars>>

\* handleOriginalRequest: the document of id is stored
OriginalRequest(id) ==
    /\ contents' = contents \cup {id}
    /\ UNCHANGED <<translations, configured, activeTranslations, rateLimiter, now, task,
                   runsLeft, hist, failedAt, completedIds, callStarts>>
    /\ UNCHANGED <<codecVars, planVars, progressVars, managerVars, messageVars>>

\* updateConfig: a model with an API key is stored
UpdateConfig ==
    /\ configured' = TRUE
    /\ UNCHANGED <<translations, contents, activeTranslations, rateLimiter, now, task,
                   runsLeft, hist, failedAt, completedIds, callStarts>>
    /\ UNCHANGED <<codecVars, planVars, progressVars, managerVars, messageVars>>

\* time passes
Tick ==
    /\ now < MaxTime
    /\ now' = now + 1
    /\ UNCHANGED <<translations, contents, configured, activeTranslations, rateLimiter,
                   task, runsLeft, hist, failedAt, completedIds, callStarts>>
    /\ UNCHANGED <<codecVars, planVars, progressVars, managerVars, messageVars>>

CodecIdle ==
    /\ srcBatch = <<>>
    /\ batchText = <<>>
    /\ reply = <<>>
    /\ replyKind = "none"
    /\ extraction = [level |-> "NONE"]
    /\ resolved = [level |-> "NONE"]
    /\ batchStored = <<>>

Init ==
    /\ CodecIdle /\ PlanIdle /\ ProgressIdle /\ ManagerIdle /\ MessageIdle
    /\ InitOrch(MAX_REQUESTS, WINDOW_MS, MaxRuns)

Next ==
    \/ \E t \in Tasks, id \in Ids : StartRequest(t, id)
    \/ \E t \in Tasks, id \in Ids : StartRetry(t, id)
    \/ \E t \in Tasks : GetTranslation(t)
    \/ \E t \in Tasks : CreatePending(t)
    \/ \E t \in Tasks : LoadProgress(t)
    \/ \E t \in Tasks : WaitIfNeeded(t)
    \/ \E t \in Tasks : TranslateReturns(t)
    \/ \E t \in Tasks : SaveBatchProgress(t)
    \/ \E t \in Tasks : UpdatePending(t)
    \/ \E t \in Tasks : SetCompleted(t)
    \/ \E t \in Tasks : SaveProgressAndThrow(t)
    \/ \E t \in Tasks : SaveFailed(t)
    \/ \E t \in Tasks : Reply(t)
    \/ \E id \in Ids : DeleteTranslation(id)
    \/ \E id \in Ids : OriginalRequest(id)
    \/ UpdateConfig

\* the handlers with the limiter of the background script; no time passes
Spec == Init /\ [][Next]_vars

\* new RateLimiter(maxRequests, windowMs), built with a small window
RateMaxRequests == 1

RateWindowMs == 2

InitRate ==
    /\ CodecIdle /\ PlanIdle /\ ProgressIdle /\ ManagerIdle /\ MessageIdle
    /\ InitOrch(RateMaxRequests, RateWindowMs, RateRuns)

NextRate ==
    \/ Next
    \/ \E t \in Tasks : WakeUp(t)
    \/ Tick

\* the handlers with a limiter of one request per window, under a clock
SpecRate == InitRate /\ [][NextRate]_vars

(***************************************************************************)
(* The codec on one batch: a batch of n >= 2 paragraphs is encoded, the    *)
(* provider returns a text, the text is decoded and resolved               *)
(* (translationHandlers.ts, performTranslation, the multi-paragraph arm).  *)
(***************************************************************************)
\* paragraph texts of a cleaned document: none is empty or whitespace only
ParaTexts == {<<"a">>, <<"b", "b">>, <<" ", "a", "\n">>, <<"b", "M0">>}

Batches == UNION {[1..n -> ParaTexts] : n \in 2..MaxBatch}

\* the source text of the paragraph at position i (1-based) of the batch
\* the free replies are decoded against: "a", "ab", "aba", "a", ...
SourceText(i) == SubSeq(<<"a", "b", "a">>, 1, ((i - 1) % 3) + 1)

SourceBatch(n) == [i \in 1..n |-> SourceText(i)]

RECURSIVE TextsUpTo(_, _)
\* the texts of at most len tokens over an alphabet
TextsUpTo(alphabet, len) ==
    IF len = 0 THEN {<<>>}
    ELSE LET shorter == TextsUpTo(alphabet, len - 1)
         IN  shorter \cup {Append(t, tok) : t \in shorter, tok \in alphabet}

\* what a provider may return for a batch of n paragraphs: letters, blanks,
\* line breaks, the markers of the batch and one renumbered marker
ReplyAlphabet(n) == {"a", "b", " ", "\n"} \cup {Marker(k) : k \in 0..n}

NoResult == [level |-> "NONE"]

InitCodec ==
    /\ srcBatch = <<>>
    /\ batchText = <<>>
    /\ reply = <<>>
    /\ replyKind = "none"
    /\ extraction = NoResult
    /\ resolved = NoResult
    /\ batchStored = <<>>
    /\ PlanIdle
    /\ ProgressIdle
    /\ ManagerIdle /\ MessageIdle
    /\ InitOrch(MAX_REQUESTS, WINDOW_MS, 0)

\* a sending that marks a batch of one paragraph as well
alwaysMarked(b) == injectMarkers(b)

\* lines 314-316: batch.length === 1 ? batch[0].text.trim() : injectMarkers(batch)
BatchTextOf(b) == IF Len(b) = 1 THEN Trim(b[1]) ELSE injectMarkers(b)

\* lines 356-369: the texts stored for the paragraphs of the batch
StoredOf(b, content) ==
    IF Len(b) = 1 THEN ArrOf(<<Stored(content)>>)
    ELSE LET fallbackResult ==
                 applyFallbackStrategy(extractTranslatedParagraphs(content, Len(b)), b, content)
         IN  [index \in 0..(Len(b) - 1) |->
                 Stored(IF index \in DOMAIN fallbackResult.paragraphs
                           /\ fallbackResult.paragraphs[index] \notin {<<>>, Undefined}
                        THEN fallbackResult.paragraphs[index]
                        ELSE b[index + 1])]

\* lines 313-316: the batch text of a batch
Encode(b) ==
    /\ srcBatch = <<>>
    /\ srcBatch' = b
    /\ batchText' = BatchTextOf(b)
    /\ UNCHANGED <<reply, replyKind, extraction, resolved, batchStored>>
    /\ UNCHANGED <<orchVars, planVars, progressVars, managerVars, messageVars>>

EncodeBatch == \E b \in Batches : Encode(b)

EncodeSource == \E n \in 2..MaxBatch : Encode(SourceBatch(n))

\* lines 356-369: the returned text of a batch of one paragraph is stored as
\* it is; that of a larger batch is decoded, resolved and stored
Receive(content, kind) ==
    /\ reply' = content
    /\ replyKind' = kind
    /\ extraction' = IF Len(srcBatch) = 1 THEN NoResult
                     ELSE extractTranslatedParagraphs(content, Len(srcBatch))
    /\ resolved' = IF Len(srcBatch) = 1 THEN NoResult
                   ELSE applyFallbackStrategy(
                            extractTranslatedParagraphs(content, Len(srcBatch)),
                            srcBatch, content)
    /\ batchStored' = StoredOf(srcBatch, content)
    /\ UNCHANGED <<srcBatch, batchText>>
    /\ UNCHANGED <<orchVars, planVars, progressVars, managerVars, messageVars>>

\* the provider returns the sent text unmodified
EchoReply ==
    /\ srcBatch # <<>> /\ replyKind = "none"
    /\ Receive(batchText, "echo")

\* the provider returns a text of its own
FreeReply ==
    /\ srcBatch # <<>> /\ replyKind = "none"
    /\ \E content \in TextsUpTo(ReplyAlphabet(Len(srcBatch)), MaxReplyLen) :
          Receive(content, "free")

\* encode and decode of the exact text, over every batch of paragraph texts
NextCodec == EncodeBatch \/ EchoReply

SpecCodec == InitCodec /\ [][NextCodec]_vars

\* decoding and resolving of arbitrary returned texts
NextDecode == EncodeSource \/ FreeReply

SpecDecode == InitCodec /\ [][NextDecode]_vars

\* what the provider returns for the paragraph of ordinal k
Translated(k) == <<"b">> \o SourceText(k + 1)

RECURSIVE MarkedReplyOf(_)
\* a returned text that holds the translations and the markers of the
\* ordinals given, smallest first, each on a line of its own
MarkedReplyOf(ordinals) ==
    IF ordinals = <<>> THEN <<>>
    ELSE Translated(Head(ordinals)) \o <<"\n", Marker(Head(ordinals)), "\n">>
         \o MarkedReplyOf(Tail(ordinals))

\* lines 313-362 for a batch of n paragraphs: the provider keeps the markers
\* of some ordinals only and may repeat the marker of ordinal 0 in front
ResolveMarked ==
    /\ replyKind = "none"
    /\ \E n \in 0..MaxLongBatch, present \in SUBSET (0..(MaxLongBatch - 1)), repeated \in BOOLEAN :
          /\ present \subseteq 0..(n - 1)
          /\ LET content == (IF repeated THEN <<Marker(0), Marker(0), "\n">> ELSE <<>>)
                             \o MarkedReplyOf(Ascending(present))
             IN  /\ srcBatch' = SourceBatch(n)
                 /\ batchText' = injectMarkers(SourceBatch(n))
                 /\ reply' = content
                 /\ replyKind' = "marked"
                 /\ extraction' = extractTranslatedParagraphs(content, n)
                 /\ resolved' = applyFallbackStrategy(
                                    extractTranslatedParagraphs(content, n),
                                    SourceBatch(n), content)
                 /\ batchStored' = <<>>
    /\ UNCHANGED <<orchVars, planVars, progressVars, managerVars, messageVars>>

NextLadder == ResolveMarked

\* the resolver on batches long enough for every level of the ladder
SpecLadder == InitCodec /\ [][NextLadder]_vars

\* a batch of one paragraph
EncodeSingle == \E para \in ParaTexts : Encode(<<para>>)

\* what the provider returns for a batch of one paragraph
ShortAlphabet == {"b", "\n", Marker(0)}

\* lines 343 and 356-358: a content that is not empty comes back for a batch
\* of one paragraph
ShortReply ==
    /\ Len(srcBatch) = 1 /\ replyKind = "none"
    /\ \E content \in TextsUpTo(ShortAlphabet, MaxReplyLen) \ {<<>>} :
          Receive(content, "short")

NextSend == EncodeSingle \/ EncodeBatch \/ ShortReply

\* batches of every size from 1 are sent, those of one paragraph answered
SpecSend == InitCodec /\ [][NextSend]_vars

(***************************************************************************)
(* Properties of the codec and the resolver.                               *)
(***************************************************************************)
HasMarker(text) == \E i \in 1..Len(text) : IsMarker(text[i])

Occurs(k, text) == \E i \in 1..Len(text) : text[i] = Marker(k)

\* C8: for every marker extraction result and every batch, the resolver
\* returns an array of length exactly totalCount with an entry at every
\* index 0..totalCount-1, at every fallback level.
C8_FallbackTotality ==
    replyKind = "free" =>
        /\ ArrLen(resolved.paragraphs) = Len(srcBatch)
        /\ DOMAIN resolved.paragraphs = 0..(Len(srcBatch) - 1)

\* C9 as stated: encoding a batch of n >= 2 paragraphs and decoding that
\* exact text yields no missing ordinal, no duplicate ordinal and the
\* original paragraphs, position by position.
C9_RoundTripAsStated ==
    replyKind = "echo" =>
        /\ extraction.missingMarkers = <<>>
        /\ extraction.duplicateMarkers = <<>>
        /\ extraction.paragraphs = ArrOf(srcBatch)

\* C9 amended: for every batch of n >= 2 paragraphs none of which contains
\* marker text, encoding and decoding that exact text yields no missing
\* ordinal, no duplicate ordinal and, at every position, the original
\* paragraph with its leading and trailing whitespace removed.
C9_RoundTrip ==
    (replyKind = "echo" /\ \A i \in 1..Len(srcBatch) : ~HasMarker(srcBatch[i])) =>
        /\ extraction.missingMarkers = <<>>
        /\ extraction.duplicateMarkers = <<>>
        /\ extraction.paragraphs = [i \in 0..(Len(srcBatch) - 1) |-> Trim(srcBatch[i + 1])]

\* a batch without marker text, with a paragraph that trimming changes and
\* two paragraphs that differ, has been encoded and decoded
C9_Witness ==
    /\ replyKind = "echo"
    /\ Len(srcBatch) >= 3
    /\ \A i \in 1..Len(srcBatch) : ~HasMarker(srcBatch[i])
    /\ \E i \in 1..Len(srcBatch) : Trim(srcBatch[i]) # srcBatch[i]
    /\ \E i, j \in 1..Len(srcBatch) : Trim(srcBatch[i]) # Trim(srcBatch[j])

\* C10: decoding with expected count n reports as missing every ordinal in
\* [0,n) whose marker occurs zero times in the returned text, whatever the
\* position of the ordinal in the batch.
C10_AbsentMarkerIsMissing ==
    replyKind = "free" =>
        \A k \in 0..(Len(srcBatch) - 1) :
            ~Occurs(k, reply) =>
                \E i \in 1..Len(extraction.missingMarkers) :
                    extraction.missingMarkers[i] = k

\* how many times the marker of ordinal k occurs in a text
Occurrences(k, text) == Cardinality({i \in 1..Len(text) : text[i] = Marker(k)})

\* the position of the first marker of ordinal k in a text
FirstOccurrence(k, text) ==
    CHOOSE i \in 1..Len(text) :
        text[i] = Marker(k) /\ \A j \in 1..(i - 1) : text[j] # Marker(k)

\* the text that precedes the marker at position i: what lies between the
\* marker before it (or the start of the text) and position i, cleaned
TextBefore(text, i) ==
    LET before == {j \in 1..(i - 1) : IsMarker(text[j])}
        prevEnd == IF before = {} THEN 0 ELSE SetMax(before)
    IN  CleanContent(SubSeq(text, prevEnd + 1, i - 1))

\* the text recovered for an ordinal: the empty text when the array holds
\* nothing at the index
Recovered(arr, j) == IF j \in DOMAIN arr THEN arr[j] ELSE <<>>

\* C11: when the marker of an ordinal of the batch occurs more than once in
\* the returned text, the ordinal is flagged as duplicate and the text
\* recovered for it is the text preceding the first occurrence of its marker.
C11_FirstOccurrenceWins ==
    replyKind = "free" =>
        \A k \in 0..(Len(srcBatch) - 1) :
            Occurrences(k, reply) > 1 =>
                /\ \E i \in 1..Len(extraction.duplicateMarkers) :
                      extraction.duplicateMarkers[i] = k
                /\ Recovered(extraction.paragraphs, k)
                       = TextBefore(reply, FirstOccurrence(k, reply))

\* a text with every marker of ordinal k removed
WithoutMarker(text, k) == SelectSeq(text, LAMBDA tok : tok # Marker(k))

\* C12: a returned text and the text that differs from it only in that the
\* marker of ordinal k is emitted zero times decode to the same text for
\* every other ordinal j # k of the batch.
C12_OtherOrdinalsUntouched ==
    replyKind = "free" =>
        \A k \in 0..(Len(srcBatch) - 1) :
            \A j \in (0..(Len(srcBatch) - 1)) \ {k} :
                Recovered(extractTranslatedParagraphs(WithoutMarker(reply, k),
                                                  Len(srcBatch)).paragraphs, j)
                    = Recovered(extraction.paragraphs, j)

\* the returned text holds the markers of all ordinals of the batch but k,
\* each once
OnlyMissing(k, text, n) ==
    /\ Occurrences(k, text) = 0
    /\ \A j \in (0..(n - 1)) \ {k} : Occurrences(j, text) = 1

\* C17: for a batch of 4 paragraphs whose returned text holds the markers of
\* exactly three of the four ordinals, each once, the resolver resolves at
\* Moderate level with missingCount 1, and the similarity matching runs for
\* one ordinal, the absent one.
C17_OneMissingOfFour ==
    (replyKind = "free" /\ Len(srcBatch) = 4) =>
        \A k \in 0..3 :
            OnlyMissing(k, reply, 4) =>
                /\ resolved.level = "MODERATE_ISSUES"
                /\ resolved.missingCount = 1
                /\ extraction.missingMarkers = <<k>>

\* missingCount / totalCount as a fraction, 1 when totalCount is 0
MissingRatio(missingCount, totalCount) ==
    IF totalCount > 0 THEN <<missingCount, totalCount>> ELSE <<1, 1>>

C25_MinorFillsMissing ==
    (replyKind = "marked" /\ resolved.level = "MINOR_ISSUES") =>
        \A k \in 0..(Len(srcBatch) - 1) :
            /\ k \in DOMAIN resolved.paragraphs
            /\ IF \E i \in 1..Len(extraction.missingMarkers) : extraction.missingMarkers[i] = k
               THEN resolved.paragraphs[k] = srcBatch[k + 1]
               ELSE /\ k \in DOMAIN extraction.paragraphs
                    /\ resolved.paragraphs[k] = extraction.paragraphs[k]

\* a batch resolved at Minor with a missing ordinal in its middle and the
\* translations of its neighbours recovered
C25_Witness ==
    /\ replyKind = "marked"
    /\ resolved.level = "MINOR_ISSUES"
    /\ extraction.missingMarkers = <<5>>
    /\ resolved.paragraphs[4] = Translated(4)
    /\ resolved.paragraphs[5] = SourceText(6)
    /\ resolved.paragraphs[6] = Translated(6)

\* the paragraph the line-based fallback owes to index i, given the lines
LineOrSource(lines, i) == IF i < Len(lines) THEN lines[i + 1] ELSE srcBatch[i + 1]

\* C26: at Severe level the resolver returns, for each index i of the batch,
\* the i-th non-empty line of the raw returned text, or the source text of
\* the paragraph when there are fewer than i+1 such lines; the paragraphs the
\* markers recovered play no part.  (A line is taken without its leading and
\* trailing whitespace; a line of whitespace only is empty.)
C26_SevereLineBased ==
    (replyKind = "free" /\ resolved.level = "SEVERE_ISSUES") =>
        /\ DOMAIN resolved.paragraphs = 0..(Len(srcBatch) - 1)
        /\ \A i \in 0..(Len(srcBatch) - 1) :
              resolved.paragraphs[i] = LineOrSource(NonEmptyLines(reply), i)

\* a batch of three paragraphs resolved at Severe: two lines are returned,
\* the first with a blank in front, and the third paragraph keeps its source
C26_Witness ==
    /\ replyKind = "free"
    /\ resolved.level = "SEVERE_ISSUES"
    /\ Len(srcBatch) = 3
    /\ Len(NonEmptyLines(reply)) = 2
    /\ reply[1] = " "
    /\ resolved.paragraphs[0] = <<"b">>
    /\ resolved.paragraphs[1] # srcBatch[2]
    /\ resolved.paragraphs[2] = srcBatch[3]

\* k is one of the ordinals the decoder reports missing
IsMissing(k) == \E i \in 1..Len(extraction.missingMarkers) : extraction.missingMarkers[i] = k

\* the first of the lines whose similarity to a text is the highest
FirstBest(lines, text) ==
    CHOOSE i \in 1..Len(lines) :
        /\ \A j \in 1..Len(lines) :
              ~FracGreater(calculateSimilarity(text, lines[j]),
                           calculateSimilarity(text, lines[i]))
        /\ \A j \in 1..(i - 1) :
              FracGreater(calculateSimilarity(text, lines[i]),
                          calculateSimilarity(text, lines[j]))

\* the paragraph the heuristic matching owes to a source text, given the lines
MatchOrSource(lines, text) ==
    IF lines = <<>> THEN text
    ELSE IF FracGreater(calculateSimilarity(text, lines[FirstBest(lines, text)]), <<1, 2>>)
         THEN lines[FirstBest(lines, text)]
         ELSE text

\* C27: at Moderate level, each missing ordinal gets the non-empty line of
\* the raw returned text with the highest similarity to its source text (the
\* first of them when several score the same) when that score is strictly
\* above 0.5, and the source text otherwise; every other ordinal of the batch
\* keeps the text recovered for it.  (Lines as in C26.)
C27_ModerateHeuristic ==
    (replyKind = "free" /\ resolved.level = "MODERATE_ISSUES") =>
        \A k \in 0..(Len(srcBatch) - 1) :
            /\ k \in DOMAIN resolved.paragraphs
            /\ IF IsMissing(k)
               THEN resolved.paragraphs[k]
                        = MatchOrSource(NonEmptyLines(reply), srcBatch[k + 1])
               ELSE /\ k \in DOMAIN extraction.paragraphs
                    /\ resolved.paragraphs[k] = extraction.paragraphs[k]

\* a batch of four paragraphs resolved at Moderate: ordinal 0 is missing and
\* gets the line "b" of the returned text, not its source text
C27_Witness ==
    /\ replyKind = "free"
    /\ resolved.level = "MODERATE_ISSUES"
    /\ extraction.missingMarkers = <<0>>
    /\ resolved.paragraphs[0] = <<"b">>

RECURSIVE MarkedFrom(_, _)
\* the paragraphs from position i on (1-based), each without its surrounding
\* whitespace and followed, after an empty line, by the marker of i - 1
MarkedFrom(b, i) ==
    IF i > Len(b) THEN <<>>
    ELSE Trim(b[i]) \o <<"\n", "\n", Marker(i - 1)>>
         \o (IF i < Len(b) THEN <<"\n", "\n">> ELSE <<>>)
         \o MarkedFrom(b, i + 1)

\* C28: a batch of one paragraph is sent as the text of the paragraph with no
\* marker added, and the whole returned text is stored as its translation,
\* undecoded; a batch of n > 1 paragraphs is sent as its paragraphs in order,
\* each followed by the marker of its 0-based position, one marker for each
\* position 0..n-1.  (Texts are sent and stored without their leading and
\* trailing whitespace; a stored text ends with an empty line.)
C28_SingleUnmarked ==
    /\ srcBatch # <<>> =>
           batchText = IF Len(srcBatch) = 1 THEN Trim(srcBatch[1]) ELSE MarkedFrom(srcBatch, 1)
    /\ (replyKind = "short" /\ Len(srcBatch) = 1) =>
           /\ extraction = NoResult
           /\ resolved = NoResult
           /\ DOMAIN batchStored = {0}
           /\ batchStored[0] = Trim(reply) \o <<"\n", "\n">>

\* a batch of one paragraph is sent without marker, and a returned text that
\* holds a marker is stored whole
C28_Witness ==
    /\ srcBatch = <<<<" ", "a", "\n">>>>
    /\ batchText = <<"a">>
    /\ reply = <<"b", Marker(0), "b">>
    /\ batchStored[0] = <<"b", Marker(0), "b", "\n", "\n">>

(***************************************************************************)
(* Properties of the handlers.                                             *)
(***************************************************************************)
\* C1: in every step that neither deletes the record of an id nor stores its
\* completed translation, the completedBatchCount of the stored progress does
\* not decrease and no key of its translatedParagraphs is lost.
C1_MonotonicProgress ==
    [][\A id \in Ids :
          translations'[id].status \notin {"absent", "completed"} =>
              /\ CompletedBatchCount(translations'[id]) >= CompletedBatchCount(translations[id])
              /\ ProgressKeys(translations[id]) \subseteq ProgressKeys(translations'[id])]_vars

\* C2: when the last run of an id, alone on that id, has failed on the batch of
\* index b (batch b + 1 of N), the stored completedBatchCount is b; and a retry
\* that follows it, alone on that id, calls the provider first for batch b, for
\* no batch below b, and for every batch from b to N - 1 when it completes.
C2_ResumeAfterFailure ==
    /\ \A id \in Ids :
          failedAt[id] >= 0 => CompletedBatchCount(translations[id]) = failedAt[id]
    /\ \A t \in Tasks :
          (hist[t].mustResume >= 0 /\ hist[t].solo) =>
              /\ \A i \in 1..Len(hist[t].calls) :
                    hist[t].calls[i] = hist[t].mustResume + i - 1
              /\ (task[t].pc = "done" /\ task[t].result.success) =>
                    Len(hist[t].calls) = Len(PlannedBatches(task[t].id)) - hist[t].mustResume

\* C3: when a handler, alone on its id and not cancelled, has returned after the
\* provider call of a batch failed, the stored record is marked failed and
\* still holds the number of batches completed before the failure and the
\* translations of all their paragraphs.
C3_ProgressSurvivesFailure ==
    \A t \in Tasks :
        (task[t].pc = "done" /\ hist[t].failedBatch >= 0 /\ hist[t].solo
            /\ ~hist[t].cancelled) =>
            /\ translations[task[t].id].status = "failed"
            /\ CompletedBatchCount(translations[task[t].id]) = hist[t].failedBatch
            /\ hist[t].failedKeys \subseteq ProgressKeys(translations[task[t].id])

\* C4: a request or retry that arrives for an id after a translation of the id
\* has run to completion (and before any deletion of it) starts no provider
\* call, writes no record, and returns the stored completed translation.
C4_CompletedIsFinal ==
    \A t \in Tasks :
        hist[t].late =>
            /\ hist[t].calls = <<>>
            /\ ~hist[t].wrote
            /\ task[t].pc = "done" =>
                  /\ task[t].result.success
                  /\ task[t].result.data.status = "completed"

\* C5: for each id at most one provider call is in flight at a time, and a run
\* calls the provider for a batch above the one it resumed from only after it
\* has stored the progress of the batch before.
C5_OneBatchAtATime ==
    /\ \A id \in Ids :
          Cardinality({t \in Tasks : task[t].id = id /\ task[t].pc = "translating"}) <= 1
    /\ \A t \in Tasks :
          \A i \in 1..Len(hist[t].calls) :
              hist[t].calls[i] > hist[t].resume => (hist[t].calls[i] - 1) \in hist[t].saved

\* the provider calls started in the window [w, w + windowMs)
StartedWithin(w, windowMs) ==
    Cardinality({i \in 1..Len(callStarts) : w <= callStarts[i] /\ callStarts[i] < w + windowMs})

\* C6: in every window of length windowMs the number of provider calls
\* started, over all running translations, is at most maxRequests.
C6_WindowNeverExceeded ==
    \A w \in 0..MaxTime :
        StartedWithin(w, rateLimiter.windowMs) <= rateLimiter.maxRequests

\* C7: a run whose id has been cancelled starts no provider call and writes no
\* record after the cancellation.
C7_NothingAfterCancel ==
    \A t \in Tasks : hist[t].afterCancel = {}

\* C18: a document from which no batch can be planned (no item, or only
\* items without a translatable paragraph) is never recorded as completed,
\* and no provider call is made for it.
C18_NoPlanNoCompletion ==
    \A id \in Ids :
        PlannedBatches(id) = <<>> =>
            /\ translations[id].status # "completed"
            /\ \A t \in Tasks : task[t].id = id => hist[t].calls = <<>>

\* the record of the id holds a batch progress
HasProgress(id) ==
    /\ translations[id].status # "absent"
    /\ translations[id].batchProgress # NoProgress

\* the step in which handler t reads the record of its id and plans its run
LoadsProgress(t) ==
    /\ task[t].pc = "loadProgress"
    /\ task'[t].pc \in {"waitIfNeeded", "setCompleted"}

\* C19: a run that starts from a persisted progress record with
\* completedBatchCount = c starts at batch c with its in-memory map of
\* translated paragraphs equal to the persisted map, and issues its provider
\* calls for the batches c, c+1, ... in this order, each at most once and none
\* for a batch below c.
C19_ResumeFromProgress ==
    /\ [](\A t \in Tasks : \A i \in 1..Len(hist[t].calls) :
              hist[t].calls[i] = hist[t].resume + i - 1)
    /\ [][\A t \in Tasks :
              (LoadsProgress(t) /\ HasProgress(task[t].id)) =>
                  LET progress == translations[task[t].id].batchProgress
                  IN  /\ hist'[t].resume = progress.completedBatchCount
                      /\ hist'[t].calls = <<>>
                      /\ task'[t].batchIndex = progress.completedBatchCount
                      /\ task'[t].translatedParagraphs = progress.translatedParagraphs]_vars

\* a run that started from a record with one completed batch has called the
\* provider for the second batch
C19_Witness ==
    \E t \in Tasks :
        /\ hist[t].resume >= 1
        /\ hist[t].calls = <<hist[t].resume>>
        /\ task[t].translatedParagraphs # {}

\* C20: whenever a provider call is issued, the wait time of the limiter is
\* 0 at that moment and the limiter then holds the timestamp of the call:
\* its list is the list of the window with the new timestamp at its end.
C20_AdmissionBeforeCall ==
    [][Len(callStarts') > Len(callStarts) =>
          /\ getWaitTime(rateLimiter, now) = 0
          /\ rateLimiter'.requests
                 = Append(Pruned(rateLimiter.requests, rateLimiter.windowMs, now), now)]_vars

\* C23: when the progress of a batch attempt is about to be written, after a
\* success or after a failure, the total it carries holds the tokens of every
\* attempt of the run, the last one included.
C23_TokensOfEveryAttempt ==
    \A t \in Tasks :
        task[t].pc \in {"saveBatchProgress", "saveProgressAndThrow"} =>
            task[t].totalTokens = hist[t].loadedTokens + hist[t].consumed


(***************************************************************************)
\* paragraph texts of 1, 1000, 2000 and 3000 estimated tokens
SizedTexts == {<<"a">>, <<"L">>, <<"L", "L">>, <<"L", "L", "L">>}

\* the maxTokens handed to batchParagraphs: the configured one, a smaller and
\* a larger one
Budgets == {1000, MAX_CONTEXT_TOKENS, 4000}

\* a document is about to be planned
InitPlanner(documents, budgets) ==
    /\ CodecIdle
    /\ ProgressIdle
    /\ ManagerIdle /\ MessageIdle
    /\ InitOrch(MAX_REQUESTS, WINDOW_MS, 0)
    /\ planItems \in documents
    /\ planMaxTokens \in budgets
    /\ planStage = "input"
    /\ planParagraphs = <<>>
    /\ planBatches = <<>>
    /\ planTranslated = <<>>
    /\ planAssembled = <<>>
    /\ planEstimate = <<>>

\* performTranslation, lines 295-296
PlanDocument ==
    /\ planStage = "input"
    /\ planParagraphs' = flattenMarkdownItems(planItems)
    /\ planBatches' = batchParagraphs(flattenMarkdownItems(planItems), planMaxTokens)
    /\ planStage' = "planned"
    /\ UNCHANGED <<planItems, planMaxTokens, planTranslated, planAssembled, planEstimate>>
    /\ UNCHANGED <<codecVars, orchVars, progressVars, managerVars, messageVars>>

\* one section of at most MaxParagraphs paragraphs of every size
InitPlan == InitPlanner({<<ps>> : ps \in TextsUpTo(SizedTexts, MaxParagraphs)}, Budgets)

NextPlan == PlanDocument

\* the batches of every paragraph list, under every budget
SpecPlan == InitPlan /\ [][NextPlan]_vars

RECURSIVE SumTokens(_)
\* the summed estimated tokens of a batch
SumTokens(b) == IF b = <<>> THEN 0 ELSE Head(b).estimatedTokens + SumTokens(Tail(b))

RECURSIVE Concat(_)
\* the concatenation of a sequence of sequences
Concat(seqs) == IF seqs = <<>> THEN <<>> ELSE Head(seqs) \o Concat(Tail(seqs))

\* C13: with budget B = maxTokens - SAFE_TOKEN_MARGIN, every batch that
\* batchParagraphs produces either has summed estimated tokens <= B or is one
\* paragraph whose own estimate exceeds B.
C13_BudgetInvariant ==
    planStage = "planned" =>
        \A i \in 1..Len(planBatches) :
            \/ SumTokens(planBatches[i]) <= planMaxTokens - SAFE_TOKEN_MARGIN
            \/ /\ Len(planBatches[i]) = 1
               /\ planBatches[i][1].estimatedTokens > planMaxTokens - SAFE_TOKEN_MARGIN

\* a plan with a batch of several paragraphs, a batch filled to the budget
\* exactly and a batch of one paragraph over the budget
C13_Witness ==
    /\ planStage = "planned"
    /\ \E i \in 1..Len(planBatches) : Len(planBatches[i]) >= 2
    /\ \E i \in 1..Len(planBatches) : SumTokens(planBatches[i]) = planMaxTokens
    /\ \E i \in 1..Len(planBatches) :
          Len(planBatches[i]) = 1 /\ planBatches[i][1].estimatedTokens > planMaxTokens

\* C14: the batches partition the paragraph sequence: every batch is
\* non-empty and the batches, concatenated in output order, are the input.
C14_BatchesPartition ==
    planStage = "planned" =>
        /\ \A i \in 1..Len(planBatches) : planBatches[i] # <<>>
        /\ Concat(planBatches) = planParagraphs

\* a plan of at least three batches, one of them over the budget and one of
\* several paragraphs
C14_Witness ==
    /\ planStage = "planned"
    /\ Len(planBatches) >= 3
    /\ \E i \in 1..Len(planBatches) : Len(planBatches[i]) >= 2
    /\ \E i \in 1..Len(planParagraphs) : planParagraphs[i].estimatedTokens > planMaxTokens

\* the text of the paragraph at position p (1-based) of a section: "a",
\* "ab", "aba", ...
SectionText(p) == [k \in 1..p |-> IF k % 2 = 1 THEN "a" ELSE "b"]

\* an empty paragraph at position p: whitespace only, or the empty string
BlankText(p) == IF p % 2 = 1 THEN <<" ">> ELSE <<>>

\* the sections of at most MaxSectionLen paragraphs, any of them empty
Sections ==
    {[p \in 1..len |-> IF p \in blanks THEN BlankText(p) ELSE SectionText(p)] :
        len \in 0..MaxSectionLen, blanks \in SUBSET (1..MaxSectionLen)}

\* the documents of at most MaxSections sections drawn from a set of sections
Documents(sections) == TextsUpTo(sections, MaxSections)

\* the map that translates every paragraph to its own source text
IdentityTranslation(paragraphs) ==
    [key \in {KeyOf(paragraphs[k]) : k \in 1..Len(paragraphs)} |->
        LET k == CHOOSE k \in 1..Len(paragraphs) : KeyOf(paragraphs[k]) = key
        IN  paragraphs[k].text]

\* performTranslation, line 388, when every paragraph came back as its source
AssembleDocument ==
    /\ planStage = "planned"
    /\ planTranslated' = IdentityTranslation(planParagraphs)
    /\ planAssembled' = assembleTranslatedContent(planItems, IdentityTranslation(planParagraphs))
    /\ planStage' = "assembled"
    /\ UNCHANGED <<planItems, planMaxTokens, planParagraphs, planBatches, planEstimate>>
    /\ UNCHANGED <<codecVars, orchVars, progressVars, managerVars, messageVars>>

InitFlatten == InitPlanner(Documents(Sections), {MAX_CONTEXT_TOKENS})

NextFlatten == PlanDocument \/ AssembleDocument

\* every document flattened, and reassembled without translation
SpecFlatten == InitFlatten /\ [][NextFlatten]_vars

\* the paragraphs of a section that are neither empty nor whitespace only
NonEmptyParagraphs(section) == SelectSeq(section, LAMBDA para : Trim(para) # <<>>)

KeyLeq(a, b) ==
    \/ a.itemIndex < b.itemIndex
    \/ a.itemIndex = b.itemIndex /\ a.paragraphIndex <= b.paragraphIndex

\* C16: flattenMarkdownItems outputs exactly one record per paragraph that is
\* not empty or whitespace only, in non-decreasing (itemIndex,
\* paragraphIndex) order, itemIndex being the position of the section in the
\* document; a section without paragraphs gives no record and keeps its index.
C16_FlattenRecords ==
    planStage \in {"planned", "assembled"} =>
        /\ \A k \in 1..Len(planParagraphs) :
              LET r == planParagraphs[k]
              IN  /\ r.itemIndex \in 0..(Len(planItems) - 1)
                  /\ r.paragraphIndex \in 0..(Len(planItems[r.itemIndex + 1]) - 1)
                  /\ r.text = planItems[r.itemIndex + 1][r.paragraphIndex + 1]
                  /\ Trim(r.text) # <<>>
        /\ \A i \in 1..Len(planItems) : \A p \in 1..Len(planItems[i]) :
              Trim(planItems[i][p]) # <<>> =>
                  Cardinality({k \in 1..Len(planParagraphs) :
                                  KeyOf(planParagraphs[k]) = <<i - 1, p - 1>>}) = 1
        /\ \A k \in 1..Len(planParagraphs) : \A l \in k..Len(planParagraphs) :
              KeyLeq(planParagraphs[k], planParagraphs[l])

\* sections of 2, 0 and 3 paragraphs flattened to the records (0,0), (0,1),
\* (2,0), (2,1), (2,2)
C16_Witness ==
    /\ planStage = "planned"
    /\ Len(planItems) = 3
    /\ Len(planItems[1]) = 2 /\ Len(planItems[2]) = 0 /\ Len(planItems[3]) = 3
    /\ [k \in 1..Len(planParagraphs) |-> KeyOf(planParagraphs[k])]
          = <<<<0, 0>>, <<0, 1>>, <<2, 0>>, <<2, 1>>, <<2, 2>>>>

\* the characters of the texts that are estimated: a letter, an ideograph of
\* U+4E00..U+9FA5, an ideograph outside that block and an emoji
EstimateAlphabet == {"a", "zh", "zx", "em"}

\* handleRequestTranslation, line 178: extractMarkdownText(cleanedContent)
ExtractText ==
    /\ planStage = "input"
    /\ planEstimate' = extractMarkdownText(planItems)
    /\ planStage' = "extracted"
    /\ UNCHANGED <<planItems, planMaxTokens, planParagraphs, planBatches, planTranslated,
                   planAssembled>>
    /\ UNCHANGED <<codecVars, orchVars, progressVars, managerVars, messageVars>>

\* documents of one paragraph
InitEstimate ==
    InitPlanner({<<<<para>>>> : para \in TextsUpTo(EstimateAlphabet, MaxTextLen)},
                {MAX_CONTEXT_TOKENS})

NextEstimate == ExtractText

\* the token estimate of every text
SpecEstimate == InitEstimate /\ [][NextEstimate]_vars

\* how many characters of a text are in a set of characters
CountOf(text, chars) == Cardinality({i \in 1..Len(text) : text[i] \in chars})

\* the least integer that is at least a / b
Ceiling(a, b) == CHOOSE k \in 0..a : k * b >= a /\ (k = 0 \/ (k - 1) * b < a)

\* C22 as stated: for every text with c CJK ideographs and o other
\* characters, the estimate is ceil(c/2) + ceil(o/4).
C22_EstimateAsStated ==
    planStage = "extracted" =>
        LET text == planItems[1][1]
            c == CountOf(text, {"zh", "zx"})
            o == Len(text) - c
        IN  planEstimate.estimatedTokens = Ceiling(c, 2) + Ceiling(o, 4)

\* C22: for every text with c characters in U+4E00..U+9FA5 and o other UTF-16
\* code units, the estimate is ceil(c/2) + ceil(o/4), a non-negative integer,
\* 0 for the empty text.
C22_Estimate ==
    planStage = "extracted" =>
        LET text == planItems[1][1]
            c == CountOf(text, {"zh"})
            o == CountOf(text, {"a", "zx"}) + 2 * CountOf(text, {"em"})
        IN  /\ planEstimate.text = text
            /\ planEstimate.estimatedTokens = Ceiling(c, 2) + Ceiling(o, 4)
            /\ planEstimate.estimatedTokens \in Nat
            /\ (text = <<>> => planEstimate.estimatedTokens = 0)

\* a text of three ideographs of the block and two letters, estimated at 3
C22_Witness ==
    /\ planStage = "extracted"
    /\ CountOf(planItems[1][1], {"zh"}) = 3
    /\ CountOf(planItems[1][1], {"a"}) = 2
    /\ planEstimate.estimatedTokens = 3

\* the sections cleanEmptyParagraphs leaves: no paragraph is empty
CleanSections == {[p \in 1..len |-> SectionText(p)] : len \in 0..MaxSectionLen}

CleanDocuments == Documents(CleanSections)

\* performTranslation, line 388, with the map the batch loop has built: a
\* paragraph has its translation stored, or a translation of whitespace only
\* (a batch of one paragraph whose returned content is blank), or none
AssembleTranslated ==
    /\ planStage = "planned"
    /\ LET keys == {KeyOf(planParagraphs[k]) : k \in 1..Len(planParagraphs)}
       IN  \E stored \in SUBSET keys : \E blank \in SUBSET stored :
              LET translatedParagraphs ==
                      [key \in stored |->
                          IF key \in blank THEN Stored(<<"\n">>)
                          ELSE Stored(<<"b">> \o planItems[key[1] + 1][key[2] + 1])]
              IN  /\ planTranslated' = translatedParagraphs
                  /\ planAssembled' = assembleTranslatedContent(planItems, translatedParagraphs)
    /\ planStage' = "assembled"
    /\ UNCHANGED <<planItems, planMaxTokens, planParagraphs, planBatches, planEstimate>>
    /\ UNCHANGED <<codecVars, orchVars, progressVars, managerVars, messageVars>>

InitAssemble == InitPlanner(CleanDocuments, {MAX_CONTEXT_TOKENS})

NextAssemble == PlanDocument \/ AssembleTranslated

\* every cleaned document, assembled from every map of translations
SpecAssemble == InitAssemble /\ [][NextAssemble]_vars

\* C24: the output document has, for every section, a translated list as
\* long as the section's source paragraph list, whose entry at position i is
\* the text stored under the key of section and position, or the empty
\* string when none is stored.
C24_EverySlotRendered ==
    planStage = "assembled" =>
        /\ Len(planAssembled) = Len(planItems)
        /\ \A i \in 1..Len(planItems) :
              /\ Len(planAssembled[i].markdown_lang) = Len(planItems[i])
              /\ \A p \in 1..Len(planItems[i]) :
                    planAssembled[i].markdown_lang[p]
                        = IF <<i - 1, p - 1>> \in DOMAIN planTranslated
                          THEN planTranslated[<<i - 1, p - 1>>]
                          ELSE <<>>

(***************************************************************************)
(* progressManager.ts: the in-memory cache of token progress.  The cache   *)
(* is a Map from a key to a RealtimeTokenProgress record; a key is the     *)
(* text of a translation id or `${id}-parallel-${i}`, written as the       *)
(* sequence of its parts.  The rates and the remaining time are numbers    *)
(* with a fractional part: they are kept as fractions <<num, den>> in      *)
(* lowest terms.  updateTimers is never written by the class: it is empty  *)
(* and left out.                                                           *)
(***************************************************************************)
Abs(x) == IF x < 0 THEN 0 - x ELSE x

RECURSIVE GCD(_, _)
GCD(x, y) == IF y = 0 THEN x ELSE GCD(y, x % y)

\* the fraction n / d, d > 0, in lowest terms
Frac(n, d) == LET g == GCD(Abs(n), d) IN <<n \div g, d \div g>>

Zero == <<0, 1>>

IsZero(q) == q[1] = 0

IsPositive(q) == q[1] > 0

\* line 35
SPEED_SMOOTHING == <<7, 10>>

\* lines 96-98: (tokenDiff / timeDiff) * 1000
InstantaneousSpeed(tokenDiff, timeDiff) == Frac(tokenDiff * 1000, timeDiff)

\* lines 104-105: SPEED_SMOOTHING * old + (1 - SPEED_SMOOTHING) * instantaneous
Smooth(old, instantaneous) ==
    LET a == SPEED_SMOOTHING[1]
        b == SPEED_SMOOTHING[2]
    IN  Frac(a * old[1] * instantaneous[2] + (b - a) * instantaneous[1] * old[2],
             b * old[2] * instantaneous[2])

\* line 114: (remainingTokens / tokensPerSecond) * 1000, tokensPerSecond > 0
RemainingTime(remainingTokens, tokensPerSecond) ==
    Frac(remainingTokens * 1000 * tokensPerSecond[2], tokensPerSecond[1])

\* the key of the overall progress of a translation
OverallKey(id) == <<id>>

\* line 172: `${translationId}-parallel-${i}`
SubTaskKey(id, i) == <<id, "-parallel-", ToString(i)>>

\* the translation id a key was made for
IdOfKey(key) == key[1]

\* lines 57-65 and 173-181: a record that starts at instant t
NewProgress(key, totalTokens, estimatedTotalTokens, t) ==
    [translationId |-> key,
     totalTokens |-> totalTokens,
     estimatedTotalTokens |-> estimatedTotalTokens,
     startTime |-> t,
     lastUpdateTime |-> t,
     tokensPerSecond |-> Zero,
     estimatedRemainingTime |-> Zero]

\* initOverallProgress that replaces a record that exists
initOverwriting(cache, id, estimatedTotalTokens, resumeTokens, t) ==
    MapSet(cache, OverallKey(id),
           NewProgress(OverallKey(id), resumeTokens, estimatedTotalTokens, t))

\* lines 41-73; resumeTokens is 0 when the argument is left out (resumeTokens || 0)
initOverallProgress(cache, id, estimatedTotalTokens, resumeTokens, t) ==
    IF OverallKey(id) \in DOMAIN cache
    THEN [cache EXCEPT ![OverallKey(id)].estimatedTotalTokens = estimatedTotalTokens]
    ELSE MapSet(cache, OverallKey(id),
                NewProgress(OverallKey(id), resumeTokens, estimatedTotalTokens, t))

\* updateOverallProgress that takes a sample from 100 ms on
updateFromHundred(cache, id, totalTokens, t) ==
    IF OverallKey(id) \notin DOMAIN cache
    THEN cache
    ELSE LET progress == cache[OverallKey(id)]
             timeDiff == t - progress.lastUpdateTime
             instantaneous == InstantaneousSpeed(totalTokens - progress.totalTokens, timeDiff)
             speed == IF IsZero(progress.tokensPerSecond)
                      THEN instantaneous
                      ELSE Smooth(progress.tokensPerSecond, instantaneous)
         IN  IF timeDiff >= 100
             THEN [cache EXCEPT ![OverallKey(id)] =
                      [progress EXCEPT
                          !.tokensPerSecond = speed,
                          !.totalTokens = totalTokens,
                          !.lastUpdateTime = t,
                          !.estimatedRemainingTime =
                              IF IsPositive(speed) /\ progress.estimatedTotalTokens > 0
                              THEN RemainingTime(progress.estimatedTotalTokens - totalTokens,
                                                 speed)
                              ELSE progress.estimatedRemainingTime]]
             ELSE cache

\* lines 78-117
updateOverallProgress(cache, id, totalTokens, t) ==
    IF OverallKey(id) \notin DOMAIN cache
    THEN cache
    ELSE LET progress == cache[OverallKey(id)]
             timeDiff == t - progress.lastUpdateTime
             instantaneous == InstantaneousSpeed(totalTokens - progress.totalTokens, timeDiff)
             speed == IF IsZero(progress.tokensPerSecond)
                      THEN instantaneous
                      ELSE Smooth(progress.tokensPerSecond, instantaneous)
         IN  IF timeDiff > 100
             THEN [cache EXCEPT ![OverallKey(id)] =
                      [progress EXCEPT
                          !.tokensPerSecond = speed,
                          !.totalTokens = totalTokens,
                          !.lastUpdateTime = t,
                          !.estimatedRemainingTime =
                              IF IsPositive(speed) /\ progress.estimatedTotalTokens > 0
                              THEN RemainingTime(progress.estimatedTotalTokens - totalTokens,
                                                 speed)
                              ELSE progress.estimatedRemainingTime]]
             ELSE cache

\* lines 152-160: cleanup
cleanup(cache, id) == MapDelete(cache, OverallKey(id))

\* lines 122-140: the record is written and then deleted
completeTranslation(cache, id) ==
    IF OverallKey(id) \notin DOMAIN cache THEN cache ELSE cleanup(cache, id)

\* lines 165-184
initParallelProgress(cache, id, parallelCount, t) ==
    [k \in DOMAIN cache \cup {SubTaskKey(id, i) : i \in 0..(parallelCount - 1)} |->
        IF \E i \in 0..(parallelCount - 1) : k = SubTaskKey(id, i)
        THEN NewProgress(k, 0, 0, t)
        ELSE cache[k]]

\* the translation ids the manager is called with
ProgressIds == {"d1", "d2"}

\* the estimatedTotalTokens of a call
EstimatedTotals == {10, 20}

\* the resumeTokens of a call: left out, 0, or the tokens of saved progress
ResumeArgs == {[given |-> FALSE, value |-> 0], [given |-> TRUE, value |-> 0],
               [given |-> TRUE, value |-> 4]}

\* the totals reported by the provider while it streams
StreamedTotals == {4, 7}

\* the clock moves in steps of this many milliseconds
TickMs == 100

InitProgress ==
    /\ CodecIdle
    /\ PlanIdle
    /\ ManagerIdle /\ MessageIdle
    /\ InitOrch(MAX_REQUESTS, WINDOW_MS, 0)
    /\ progressCache = [key \in {} |-> 0]
    /\ progressNow = 0
    /\ progressOps = MaxProgressOps
    /\ progressLast = [op |-> "none"]

CallsInit(id, estimatedTotalTokens, arg) ==
    /\ progressOps > 0
    /\ progressCache' = initOverallProgress(progressCache, id, estimatedTotalTokens,
                                            arg.value, progressNow)
    /\ progressLast' = [op |-> "init", id |-> id, estimated |-> estimatedTotalTokens,
                        resume |-> arg, before |-> progressCache]
    /\ progressOps' = progressOps - 1
    /\ UNCHANGED progressNow
    /\ UNCHANGED <<codecVars, orchVars, planVars, managerVars, messageVars>>

CallsUpdate(id, totalTokens) ==
    /\ progressOps > 0
    /\ progressCache' = updateOverallProgress(progressCache, id, totalTokens, progressNow)
    /\ progressLast' = [op |-> "update", id |-> id, total |-> totalTokens,
                        before |-> progressCache]
    /\ progressOps' = progressOps - 1
    /\ UNCHANGED progressNow
    /\ UNCHANGED <<codecVars, orchVars, planVars, managerVars, messageVars>>

CallsComplete(id, finalTotalTokens) ==
    /\ progressOps > 0
    /\ progressCache' = completeTranslation(progressCache, id)
    /\ progressLast' = [op |-> "complete", id |-> id, total |-> finalTotalTokens,
                        before |-> progressCache]
    /\ progressOps' = progressOps - 1
    /\ UNCHANGED progressNow
    /\ UNCHANGED <<codecVars, orchVars, planVars, managerVars, messageVars>>

CallsInitParallel(id, parallelCount) ==
    /\ progressOps > 0
    /\ progressCache' = initParallelProgress(progressCache, id, parallelCount, progressNow)
    /\ progressLast' = [op |-> "parallel", id |-> id, count |-> parallelCount,
                        before |-> progressCache]
    /\ progressOps' = progressOps - 1
    /\ UNCHANGED progressNow
    /\ UNCHANGED <<codecVars, orchVars, planVars, managerVars, messageVars>>

\* time passes between two calls
ProgressTick ==
    /\ progressNow < MaxProgressTicks * TickMs
    /\ progressNow' = progressNow + TickMs
    /\ UNCHANGED <<progressCache, progressOps, progressLast>>
    /\ UNCHANGED <<codecVars, orchVars, planVars, managerVars, messageVars>>

NextProgress ==
    \/ \E id \in ProgressIds, est \in EstimatedTotals, arg \in ResumeArgs :
           CallsInit(id, est, arg)
    \/ \E id \in ProgressIds, total \in StreamedTotals : CallsUpdate(id, total)
    \/ \E id \in ProgressIds, total \in StreamedTotals : CallsComplete(id, total)
    \/ \E id \in ProgressIds, count \in 1..MaxParallel : CallsInitParallel(id, count)
    \/ ProgressTick

\* the calls of the progress manager, in every order
SpecProgress == InitProgress /\ [][NextProgress]_vars

\* the record of the id of the last call
LastRecord == progressCache[OverallKey(progressLast.id)]

\* the last call was initOverallProgress
AfterInit == progressLast.op = "init"

\* the id of the last call had a record before the call
HadRecord == OverallKey(progressLast.id) \in DOMAIN progressLast.before

\* C29 as stated: after initOverallProgress(id, estimatedTotalTokens,
\* resumeTokens) the record of id has rate 0 and totalTokens = resumeTokens
\* (0 when the argument is left out), whether or not id had a record before.
C29_StartAsStated ==
    AfterInit =>
        /\ OverallKey(progressLast.id) \in DOMAIN progressCache
        /\ LastRecord.tokensPerSecond = Zero
        /\ LastRecord.totalTokens = progressLast.resume.value

\* C29: after initOverallProgress(id, estimatedTotalTokens, resumeTokens) the
\* record of id has the estimatedTotalTokens of the call; when id had no
\* record before, the record has rate 0 and totalTokens = resumeTokens (0
\* when the argument is left out); when id had one, every other field of it
\* is as it was.
C29_Start ==
    AfterInit =>
        /\ OverallKey(progressLast.id) \in DOMAIN progressCache
        /\ LastRecord.estimatedTotalTokens = progressLast.estimated
        /\ ~HadRecord =>
               /\ LastRecord.tokensPerSecond = Zero
               /\ LastRecord.totalTokens = progressLast.resume.value
        /\ HadRecord =>
               LastRecord = [progressLast.before[OverallKey(progressLast.id)] EXCEPT
                                !.estimatedTotalTokens = progressLast.estimated]

\* a record that streamed from 4 to 7 tokens in 200 ms is started again with
\* resumeTokens 0 and keeps its 7 tokens and its rate of 15 tokens a second
C29_Witness ==
    /\ AfterInit
    /\ HadRecord
    /\ progressLast.resume = [given |-> TRUE, value |-> 0]
    /\ progressLast.estimated = 20
    /\ LastRecord.estimatedTotalTokens = 20
    /\ LastRecord.totalTokens = 7
    /\ LastRecord.tokensPerSecond = <<15, 1>>

\* the last call was completeTranslation
AfterComplete == progressLast.op = "complete"

\* the keys of a cache that were made for other ids than the one of the last call
KeysOfOthers(cache) == {key \in DOMAIN cache : IdOfKey(key) # progressLast.id}

\* C30: after completeTranslation(id) the cache holds no entry made for id,
\* neither its overall entry nor an entry of one of its parallel sub-tasks,
\* and the entries of the other ids are as they were.
C30_CompleteClears ==
    AfterComplete =>
        /\ \A key \in DOMAIN progressCache : IdOfKey(key) # progressLast.id
        /\ KeysOfOthers(progressCache) = KeysOfOthers(progressLast.before)
        /\ \A key \in KeysOfOthers(progressCache) :
               progressCache[key] = progressLast.before[key]

\* the last call was updateOverallProgress
AfterUpdate == progressLast.op = "update"

\* the time between the last sample of the record of the last call and the call
SinceLastSample ==
    progressNow - progressLast.before[OverallKey(progressLast.id)].lastUpdateTime

\* C31: updateOverallProgress for an id without a record changes nothing in
\* the cache; for an id whose record took its last sample (or was created) no
\* more than 100 ms ago it changes nothing either: totalTokens, rate,
\* remaining time and lastUpdateTime of the record, and every other record,
\* are as they were.
C31_EarlyUpdateIgnored ==
    AfterUpdate =>
        /\ ~HadRecord => progressCache = progressLast.before
        /\ (HadRecord /\ SinceLastSample <= 100) => progressCache = progressLast.before

\* a total of 7 tokens is reported exactly 100 ms after the record was created
\* with 4 tokens, and the record is as it was
C31_Witness ==
    /\ AfterUpdate
    /\ HadRecord
    /\ SinceLastSample = 100
    /\ progressLast.total = 7
    /\ LastRecord.totalTokens = 4
    /\ LastRecord.lastUpdateTime = 0

(***************************************************************************)
(* activeTranslations.ts: the Map from a translation id to the             *)
(* AbortController of the task that translates it.  A controller is the    *)
(* number of the register call that made it.                               *)
(***************************************************************************)
\* lines 27-29: the controllers cancel(translationId) aborts
AbortedByCancel(controllers, translationId) ==
    IF translationId \in DOMAIN controllers THEN {controllers[translationId]} ELSE {}

\* lines 13-21: cancel, then set
register(controllers, translationId, controller) ==
    MapSet(cancel(controllers, translationId), translationId, controller)

\* lines 38-41
complete(controllers, translationId) == MapDelete(controllers, translationId)

\* lines 53-59: every controller held is aborted, the Map is cleared
cancelAll(controllers) == EmptyMap

\* controller.abort() on a set of controllers
Abort(tasks, aborted) ==
    [c \in 1..Len(tasks) |-> IF c \in aborted THEN [tasks[c] EXCEPT !.aborted = TRUE]
                             ELSE tasks[c]]

\* the ids the tasks translate
ManagerIds == {"d1", "d2"}

\* the variables of the background script the manager does not write
orchRest == <<translations, contents, configured, rateLimiter, now, task, runsLeft, hist,
              failedAt, completedIds, callStarts>>

InitManager ==
    /\ CodecIdle
    /\ PlanIdle
    /\ ProgressIdle
    /\ ManagerIdle /\ MessageIdle
    /\ InitOrch(MAX_REQUESTS, WINDOW_MS, 0)

\* a task starts to translate id and registers
Registers(id) ==
    /\ Len(registered) < MaxRegistered
    /\ activeTranslations' = register(activeTranslations, id, Len(registered) + 1)
    /\ registered' = Append(Abort(registered, AbortedByCancel(activeTranslations, id)),
                            [id |-> id, aborted |-> FALSE, running |-> TRUE])
    /\ managerLast' = [op |-> "register", id |-> id, before |-> activeTranslations]
    /\ UNCHANGED <<orchRest, codecVars, planVars, progressVars, messageVars>>

\* deleteTranslation, historyHandlers.ts line 48: cancel(id)
Cancels(id) ==
    /\ activeTranslations' = cancel(activeTranslations, id)
    /\ registered' = Abort(registered, AbortedByCancel(activeTranslations, id))
    /\ managerLast' = [op |-> "cancel", id |-> id, before |-> activeTranslations]
    /\ UNCHANGED <<orchRest, codecVars, planVars, progressVars, messageVars>>

\* the task of the c-th register call ends, aborted or not, and calls
\* complete with its id
Completes(c) ==
    /\ c \in 1..Len(registered)
    /\ registered[c].running
    /\ activeTranslations' = complete(activeTranslations, registered[c].id)
    /\ registered' = [registered EXCEPT ![c].running = FALSE]
    /\ managerLast' = [op |-> "complete", id |-> registered[c].id,
                       before |-> activeTranslations]
    /\ UNCHANGED <<orchRest, codecVars, planVars, progressVars, messageVars>>

CancelsAll ==
    /\ activeTranslations' = cancelAll(activeTranslations)
    /\ registered' = Abort(registered,
                           {activeTranslations[id] : id \in DOMAIN activeTranslations})
    /\ managerLast' = [op |-> "cancelAll", id |-> "none", before |-> activeTranslations]
    /\ UNCHANGED <<orchRest, codecVars, planVars, progressVars, messageVars>>

NextManager ==
    \/ \E id \in ManagerIds : Registers(id)
    \/ \E id \in ManagerIds : Cancels(id)
    \/ \E c \in 1..MaxRegistered : Completes(c)
    \/ CancelsAll

\* the calls of the manager, in every order
SpecManager == InitManager /\ [][NextManager]_vars

\* the controllers made for an id
ControllersOf(id) == {c \in 1..Len(registered) : registered[c].id = id}

\* the task of controller c can be cancelled through cancel(id)
Cancellable(c) ==
    /\ registered[c].id \in DOMAIN activeTranslations
    /\ activeTranslations[registered[c].id] = c

\* C33: the Map holds at most one controller per id, a controller of that
\* id; no controller it holds is aborted; register(id) has aborted the
\* controller held for id before; the controller held for an id is the one
\* of the last register call for that id; and every task that still runs and
\* whose controller is not aborted is the one cancel(id) would abort.
C33_ManagerInvariant ==
    /\ \A id \in DOMAIN activeTranslations :
           /\ activeTranslations[id] \in ControllersOf(id)
           /\ ~registered[activeTranslations[id]].aborted
           /\ \A c \in ControllersOf(id) : c <= activeTranslations[id]
    /\ (managerLast.op = "register" /\ managerLast.id \in DOMAIN managerLast.before) =>
           registered[managerLast.before[managerLast.id]].aborted
    /\ \A c \in 1..Len(registered) :
           (registered[c].running /\ ~registered[c].aborted) => Cancellable(c)

(***************************************************************************)
(* More properties of the background translation handlers.                 *)
(***************************************************************************)
\* the batches the run in slot t has finished since it loaded its progress
BatchesFinished(t) ==
    IF task[t].pc \in {"saveBatchProgress", "updatePending"}
    THEN task[t].batchIndex + 1 - hist[t].resume
    ELSE IF task[t].pc \in {"waitIfNeeded", "sleeping", "translating", "setCompleted",
                            "saveProgressAndThrow"}
    THEN task[t].batchIndex - hist[t].resume
    ELSE 0

\* the run in slot t has ended in failure after it had started to translate
RunFailed(t) == task[t].pc = "done" /\ hist[t].wrote /\ ~task[t].result.success

\* C32: a run has sent one message to the tab for every batch it has
\* finished, it has sent one when it has ended in failure, and a message of
\* completion is sent only by a handler that holds the completed record that
\* was stored.
C32_ProgressEvents ==
    \A t \in Tasks :
        /\ task[t].pc = "updatePending" => Len(hist[t].events) >= BatchesFinished(t)
        /\ RunFailed(t) => hist[t].events # <<>>
        /\ hist[t].events # <<>> =>
               /\ task[t].pc = "done"
               /\ task[t].result.success
               /\ task[t].result.data.status = "completed"

\* C34: a record that is stored as completed stays as it is in every step,
\* unless the step is the deletion of the record.
C34_CompletedStays ==
    [][\A id \in Ids :
          translations[id].status = "completed" =>
              translations'[id] \in {translations[id], NoEntry}]_vars

\* C35: a run that was in flight when the record of its id was deleted
\* stores no record for the id afterwards.
C35_NoRecordAfterDelete ==
    [][\A t \in Tasks :
          (hist[t].cancelled /\ task'[t] # task[t]) =>
              translations'[task[t].id] = translations[task[t].id]]_vars

C37_NoMarkerStored ==
    (Len(srcBatch) >= 2 /\ replyKind # "none") =>
        \A index \in DOMAIN batchStored :
            \A k \in 1..Len(batchStored[index]) : ~IsMarker(batchStored[index][k])

\* handleOriginalRequest, lines 94-102: no translation is needed for a record
\* that is completed or pending
needUnlessCompleted(existingTranslation) == existingTranslation.status # "completed"

\* handleOriginalRequest, lines 94-113
needTranslation(existingTranslation) ==
    IF existingTranslation # NoEntry
    THEN IF existingTranslation.status = "completed" THEN FALSE
         ELSE IF existingTranslation.status = "pending" THEN FALSE
         ELSE TRUE
    ELSE TRUE

\* one step of the handler in slot t: a store read or write, a provider call
\* or the sending of the response returns
HandlerStep(t) ==
    \/ GetTranslation(t)
    \/ CreatePending(t)
    \/ LoadProgress(t)
    \/ WaitIfNeeded(t)
    \/ TranslateReturns(t)
    \/ SaveBatchProgress(t)
    \/ UpdatePending(t)
    \/ SetCompleted(t)
    \/ SaveProgressAndThrow(t)
    \/ SaveFailed(t)
    \/ Reply(t)

InitLive ==
    /\ CodecIdle /\ PlanIdle /\ ProgressIdle /\ ManagerIdle /\ MessageIdle
    /\ InitOrch(MAX_REQUESTS, WINDOW_MS, LiveRuns)

\* the handlers, when every awaited call of every handler returns
SpecLive == InitLive /\ [][Next]_vars /\ \A t \in Tasks : WF_vars(HandlerStep(t))

\* the run in slot t has stored the pending record and has not ended
InRun(t) == task[t].pc \notin {"idle", "getTranslation", "createPending", "done"}

\* the provider calls of the run in slot t are those of the batches from the
\* one it resumed from, in order, each once
CallsInOrder(t) ==
    \A i \in 1..Len(hist[t].calls) :
        /\ hist[t].calls[i] = hist[t].resume + i - 1
        /\ hist[t].calls[i] < Len(PlannedBatches(task[t].id))

\* C38: when every provider call and every store access returns, a run that
\* has started ends; the step in which it ends stores the record as
\* completed or as failed; a pending record does not stay pending; a run
\* calls the provider at most once for each batch from the one it resumed
\* from, and its last call is the one that failed.
C38_RunsEnd ==
    /\ \A t \in Tasks : InRun(t) ~> (task[t].pc = "done")
    /\ \A id \in Ids : (translations[id].status = "pending") ~>
                           (translations[id].status # "pending")
    /\ [][\A t \in Tasks :
             (InRun(t) /\ task'[t].pc = "done") =>
                 translations'[task[t].id].status \in {"completed", "failed"}]_vars
    /\ [](\A t \in Tasks :
             /\ CallsInOrder(t)
             /\ hist[t].failedBatch # -1 =>
                    hist[t].calls[Len(hist[t].calls)] = hist[t].failedBatch)

\* a run of d1 has called the provider for the first and for the second
\* batch, the second call has failed, and the run has ended with the record
\* stored as failed
C38_Witness ==
    \E t \in Tasks :
        /\ task[t].pc = "done"
        /\ task[t].id = "d1"
        /\ hist[t].calls = <<0, 1>>
        /\ hist[t].failedBatch = 1
        /\ translations["d1"].status = "failed"

\* ---------------------------------------------------------------------------
\* handleOriginalRequest (translationHandlers.ts, lines 68-114)
\* ---------------------------------------------------------------------------

\* lines 78-90: the page sends the document of id; indexedDB.setContent
\* stores it
SetContent(id) ==
    /\ original.pc \in {"idle", "done"}
    /\ contents' = contents \cup {id}
    /\ original' = [pc |-> "getTranslation", id |-> id]
    /\ UNCHANGED importing
    /\ UNCHANGED <<translations, configured, activeTranslations, rateLimiter, now, task,
                   runsLeft, hist, failedAt, completedIds, callStarts>>
    /\ UNCHANGED <<codecVars, planVars, progressVars, managerVars>>

\* lines 92-113: indexedDB.getTranslation returns and the handler answers
AnswerOriginal ==
    /\ original.pc = "getTranslation"
    /\ LET existingTranslation == translations[original.id]
       IN  original' = [pc |-> "done", id |-> original.id,
                        read |-> existingTranslation,
                        stored |-> original.id \in contents,
                        response |-> [success |-> TRUE,
                                      needTranslation |-> needTranslation(existingTranslation)]]
    /\ UNCHANGED importing
    /\ UNCHANGED <<orchVars, codecVars, planVars, progressVars, managerVars>>

NextOriginal ==
    \/ \E t \in Tasks, id \in Ids : StartRequest(t, id)
    \/ \E t \in Tasks, id \in Ids : StartRetry(t, id)
    \/ \E t \in Tasks : HandlerStep(t)
    \/ \E id \in Ids : DeleteTranslation(id)
    \/ UpdateConfig
    \/ \E id \in Ids : SetContent(id)
    \/ AnswerOriginal

\* the translation handlers and handleOriginalRequest with its two awaits
SpecOriginal == InitLive /\ [][NextOriginal]_vars

\* C39: handleOriginalRequest has stored the content when it answers; it
\* answers needTranslation = false when the record of the id is completed or
\* pending, and needTranslation = true when there is no record or the record
\* is failed; no step of it changes a translation record.
C39_OriginalAnswer ==
    /\ [](original.pc = "done" =>
             /\ original.stored
             /\ original.read.status \in {"completed", "pending"} =>
                    original.response.needTranslation = FALSE
             /\ original.read.status \in {"absent", "failed"} =>
                    original.response.needTranslation = TRUE)
    /\ [][original' # original =>
             /\ translations' = translations
             /\ original'.pc = "done" => original'.read = translations[original.id]]_vars

\* handleOriginalRequest has answered that no translation is needed for a
\* record that a run in flight has stored as pending
C39_Witness ==
    /\ original.pc = "done"
    /\ original.read.status = "pending"
    /\ original.response.needTranslation = FALSE
    /\ \E t \in Tasks : Running(t) /\ task[t].id = original.id

\* ---------------------------------------------------------------------------
\* importHistory (historyHandlers.ts, lines 94-126) and validateExportData
\* ---------------------------------------------------------------------------

\* the records of an imported file: the id ("" when it is missing or not a
\* string), the status, whether meta is an object
ImportItems ==
    {[id |-> "d1", status |-> "completed", meta |-> TRUE],
     [id |-> "d1", status |-> "failed", meta |-> TRUE],
     [id |-> "d2", status |-> "pending", meta |-> TRUE],
     [id |-> "", status |-> "completed", meta |-> TRUE],
     [id |-> "d2", status |-> "done", meta |-> TRUE],
     [id |-> "d2", status |-> "completed", meta |-> FALSE]}

\* the imported data: whether it is an object, whether version is a string,
\* whether translations is an array, and the array
ImportData ==
    {[object |-> TRUE, version |-> TRUE, array |-> TRUE, translations |-> list] :
         list \in TextsUpTo(ImportItems, MaxImport)}
    \cup {[object |-> FALSE, version |-> FALSE, array |-> FALSE, translations |-> <<>>],
          [object |-> TRUE, version |-> FALSE, array |-> TRUE,
           translations |-> <<[id |-> "d1", status |-> "completed", meta |-> TRUE]>>],
          [object |-> TRUE, version |-> TRUE, array |-> FALSE, translations |-> <<>>]}

\* validateExportData
validateExportData(data) ==
    IF ~data.object THEN FALSE
    ELSE IF ~data.version THEN FALSE
    ELSE IF ~data.array THEN FALSE
    ELSE \A i \in 1..Len(data.translations) :
             LET item == data.translations[i]
             IN  /\ item.id # ""
                 /\ item.status \in {"completed", "failed", "pending"}
                 /\ item.meta

\* the record indexedDB.setTranslation stores for an imported item
ImportedEntry(item) ==
    [status |-> item.status, batchProgress |-> NoProgress, tokenCount |-> 0,
     markdown |-> {}]

\* lines 98-101 and 107-108: the data is validated
ImportStarts(data) ==
    /\ importing.pc = "idle"
    /\ importing' =
           IF validateExportData(data)
           THEN [pc |-> "getAllTranslations", data |-> data, valid |-> TRUE,
                 existingIds |-> {}, index |-> 1, imported |-> 0, skipped |-> 0,
                 written |-> <<>>]
           ELSE [pc |-> "done", data |-> data, valid |-> FALSE,
                 existingIds |-> {}, index |-> 1, imported |-> 0, skipped |-> 0,
                 written |-> <<>>]
    /\ UNCHANGED original
    /\ UNCHANGED <<orchVars, codecVars, planVars, progressVars, managerVars>>

\* the loop is left and the counters are returned, lines 122-125
AfterItem(state) ==
    IF state.index > Len(state.data.translations) THEN [state EXCEPT !.pc = "done"]
    ELSE state

\* lines 104-105: getAllTranslations returns; existingIds is built
ImportReadsAll ==
    /\ importing.pc = "getAllTranslations"
    /\ importing' = AfterItem([importing EXCEPT
                                  !.pc = "loop",
                                  !.existingIds = {id \in Ids : translations[id] # NoEntry}])
    /\ UNCHANGED original
    /\ UNCHANGED <<orchVars, codecVars, planVars, progressVars, managerVars>>

\* lines 111-120: one iteration of the loop
ImportItem ==
    /\ importing.pc = "loop"
    /\ LET translation == importing.data.translations[importing.index]
       IN  IF translation.id \in importing.existingIds
           THEN /\ importing' = AfterItem([importing EXCEPT !.skipped = @ + 1,
                                                            !.index = @ + 1])
                /\ UNCHANGED translations
           ELSE /\ translations' = [translations EXCEPT
                                       ![translation.id] = ImportedEntry(translation)]
                /\ importing' = AfterItem([importing EXCEPT
                                              !.imported = @ + 1,
                                              !.existingIds = @ \cup {translation.id},
                                              !.written = Append(@, translation.id),
                                              !.index = @ + 1])
    /\ UNCHANGED original
    /\ UNCHANGED <<contents, configured, activeTranslations, rateLimiter, now, task,
                   runsLeft, hist, failedAt, completedIds, callStarts>>
    /\ UNCHANGED <<codecVars, planVars, progressVars, managerVars>>

InitImport ==
    /\ CodecIdle /\ PlanIdle /\ ProgressIdle /\ ManagerIdle /\ MessageIdle
    /\ InitOrch(MAX_REQUESTS, WINDOW_MS, ImportRuns)

NextImport ==
    \/ \E t \in Tasks, id \in Ids : StartRequest(t, id)
    \/ \E t \in Tasks, id \in Ids : StartRetry(t, id)
    \/ \E t \in Tasks : HandlerStep(t)
    \/ \E id \in Ids : DeleteTranslation(id)
    \/ \E id \in Ids : OriginalRequest(id)
    \/ UpdateConfig
    \/ \E data \in ImportData : ImportStarts(data)
    \/ ImportReadsAll
    \/ ImportItem

\* one import, while the translation handlers run
SpecImport == InitImport /\ [][NextImport]_vars

\* C40: a step of importHistory changes only the record of an id that has no
\* record in the store; it stores no id twice; with valid data the counters
\* it returns add up to the number of records of the file; with invalid data
\* it stores nothing.
C40_ImportAppends ==
    /\ [][importing' # importing =>
             \A id \in Ids : translations[id] # NoEntry =>
                                 translations'[id] = translations[id]]_vars
    /\ [](importing.pc # "idle" =>
             /\ \A i, j \in 1..Len(importing.written) :
                    importing.written[i] = importing.written[j] => i = j
             /\ (importing.pc = "done" /\ importing.valid) =>
                    importing.imported + importing.skipped =
                        Len(importing.data.translations)
             /\ ~importing.valid => importing.written = <<>>)

====
